---- MODULE Spec2Model ----
(***************************************************************************)
(* The Volt tree-walking evaluator (src/interpreter.py) as an abstract     *)
(* machine.  Python's call stack of _exec_* handlers is the variable       *)
(* `stack`; a Python exception in flight (ReturnSignal, BreakSignal,       *)
(* ContinueSignal, VoltThrowError, VoltRuntimeError, or a host exception   *)
(* such as TypeError/KeyError) is the variable `sig` while mode="signal".  *)
(* Environment, VoltFunction, VoltClass, VoltInstance, VoltModule and      *)
(* Python lists are heaps indexed by address, so that sharing by           *)
(* reference is explicit.  The input is a Volt program (an AST built from  *)
(* the node classes of src/ast_nodes.py) drawn from the catalogue that     *)
(* follows the node constructors.                                          *)
(***************************************************************************)
EXTENDS Integers, Sequences, FiniteSets, TLC

VARIABLES
  pid,      \* input: index of the program under evaluation
  status,   \* "running" | "done" | "runtime_error" | "host_crash" | "unmodelled"
  mode,     \* "eval" | "apply" | "step" | "value" | "signal" | "halt"
  cur,      \* <<node>> being dispatched by execute(), or <<>>
  cenv,     \* address of the Environment passed to execute()
  val,      \* value returned by the handler that just finished
  sig,      \* exception in flight
  stack,    \* Python stack of handler activations (top = last)
  envs,     \* heap of Environment objects
  funcs,    \* heap of VoltFunction objects
  classes,  \* heap of VoltClass objects
  insts,    \* heap of VoltInstance objects
  lists,    \* heap of Python list objects
  dicts,    \* heap of Python dict objects (entries in insertion order)
  mods,     \* heap of VoltModule objects
  out,      \* lines written to standard output
  trace,    \* history of observed events (for stating the properties)
  nid,      \* next fresh identity for activations and raised signals
  source,   \* text handed to Lexer(source), one character per element
  token,    \* what Lexer.read_string returned or raised for `source`
  tokens,   \* token types handed to Parser(tokens), without the final EOF
  tree      \* what Parser.parse returned or raised for `tokens`

vars == <<pid, status, mode, cur, cenv, val, sig, stack, envs, funcs, classes,
          insts, lists, dicts, mods, out, trace, nid, source, token, tokens, tree>>

\* the front end's variables: the evaluator never touches them
frontvars == <<source, token, tokens, tree>>

heapvars == <<envs, funcs, classes, insts, lists, dicts, mods>>

-----------------------------------------------------------------------------
(* AST nodes: src/ast_nodes.py.  An optional child (None in the source) is *)
(* a sequence of length 0 or 1; an absent name is "".                      *)

NumberLiteral(n)      == [t |-> "NumberLiteral", n |-> n]
StringLiteral(s)      == [t |-> "StringLiteral", s |-> s]
NullLiteral           == [t |-> "NullLiteral"]
BooleanLiteral(b)     == [t |-> "BooleanLiteral", value |-> b]
ListLiteral(es)       == [t |-> "ListLiteral", elements |-> es]
Identifier(x)         == [t |-> "Identifier", name |-> x]
ThisExpression        == [t |-> "ThisExpression"]
\* pairs: a sequence of <<key node, value node>>
DictLiteral(ps)       == [t |-> "DictLiteral", pairs |-> ps]
IndexAccess(o, i)     == [t |-> "IndexAccess", obj |-> o, index |-> i]
DotAccess(o, p)       == [t |-> "DotAccess", obj |-> o, property |-> p]
BinaryOp(op, l, r)    == [t |-> "BinaryOp", op |-> op, left |-> l, right |-> r]
FunctionCall(f, as)   == [t |-> "FunctionCall", name |-> f, args |-> as]
CallExpression(c, as) == [t |-> "CallExpression", callee |-> c, args |-> as]
MethodCall(o, m, as)  == [t |-> "MethodCall", obj |-> o, method |-> m, args |-> as]
NewExpression(c, as)  == [t |-> "NewExpression", class_name |-> c, args |-> as]
SuperMethodCall(m, as) == [t |-> "SuperMethodCall", method |-> m, args |-> as]
UnaryOp(op, e)        == [t |-> "UnaryOp", op |-> op, operand |-> e]
LambdaExpression(ps, b) == [t |-> "LambdaExpression", params |-> ps, body |-> b]

Assignment(tg, v)     == [t |-> "Assignment", target |-> tg, value |-> v]
ShowStatement(e)      == [t |-> "ShowStatement", expression |-> e]
IfStatement(c, b, e)  == [t |-> "IfStatement", condition |-> c, body |-> b, else_body |-> e]
WhileStatement(c, b)  == [t |-> "WhileStatement", condition |-> c, body |-> b]
LoopTimesStatement(c, b) == [t |-> "LoopTimesStatement", count |-> c, body |-> b]
FuncDeclaration(f, ps, b) == [t |-> "FuncDeclaration", name |-> f, params |-> ps, body |-> b]
ReturnStatement(v)    == [t |-> "ReturnStatement", value |-> v]
BreakStatement        == [t |-> "BreakStatement"]
ContinueStatement     == [t |-> "ContinueStatement"]
ThrowStatement(v)     == [t |-> "ThrowStatement", value |-> v]
\* v2 = "": the one-variable form
ForInStatement(v, v2, it, b) ==
  [t |-> "ForInStatement", variable |-> v, variable2 |-> v2, iterable |-> it, body |-> b]
DestructureList(ns, v) == [t |-> "DestructureList", names |-> ns, value |-> v]
DestructureDict(ns, v) == [t |-> "DestructureDict", names |-> ns, value |-> v]
PushStatement(l, v)   == [t |-> "PushStatement", list_expr |-> l, value |-> v]
PopStatement(l)       == [t |-> "PopStatement", list_expr |-> l]
TryCatchStatement(b, cv, cb, fb) ==
  [t |-> "TryCatchStatement", try_body |-> b, catch_var |-> cv,
   catch_body |-> cb, finally_body |-> fb]
ClassDeclaration(c, p, ms) == [t |-> "ClassDeclaration", name |-> c, parent |-> p, methods |-> ms]
UseStatement(m)       == [t |-> "UseStatement", module_name |-> m]

\* a parameter: (name, default_node_or_None)
Param(x)        == [name |-> x, default |-> <<>>]
ParamDef(x, d)  == [name |-> x, default |-> <<d>>]

-----------------------------------------------------------------------------
(* The programs evaluated: the catalogue of inputs.                        *)

Program(stmts) == [t |-> "Program", statements |-> stmts]

Id(x)        == Identifier(x)
Str(x)       == StringLiteral(x)
Num(n)       == NumberLiteral(n)
Set(x, e)    == Assignment(Identifier(x), e)
Show(e)      == ShowStatement(e)
Ret(e)       == ReturnStatement(<<e>>)
Call(f, as)  == FunctionCall(f, as)

Try(b, cv, cb, fb) == TryCatchStatement(b, cv, cb, fb)
If(c, b)     == IfStatement(c, b, <<>>)
Times(n, b)  == LoopTimesStatement(Num(n), b)
Func(f, ps, b) == FuncDeclaration(f, ps, b)
Class(c, p, ms) == ClassDeclaration(c, p, ms)
New(c, as)   == NewExpression(c, as)
Dot(o, p)    == DotAccess(o, p)
Meth(o, m, as) == MethodCall(o, m, as)
Bin(op, l, r) == BinaryOp(op, l, r)

\* passes of every `for N { }` in the catalogue
LoopCount == 2

\* --- try / catch / finally: how each of the three blocks ends ------------
BodyEnds    == <<"normal", "throw", "rterr", "return", "break", "continue", "host">>
CatchEnds   == <<"none", "normal", "throw", "rterr", "return", "break", "continue">>
FinallyEnds == <<"none", "normal", "throw", "return", "break", "continue">>

\* statements that end a block the given way; tag names the block
End(how, tag) ==
  CASE how = "normal"   -> <<>>
    [] how = "throw"    -> <<ThrowStatement(IF tag = "body" THEN Id("v") ELSE Str(tag \o " throw"))>>
    [] how = "rterr"    -> <<Show(Id("undefined_in_" \o tag))>>
    [] how = "return"   -> <<Ret(Str(tag \o " return"))>>
    [] how = "break"    -> <<BreakStatement>>
    [] how = "continue" -> <<ContinueStatement>>
    [] how = "host"     -> <<Show(Bin("-", Num(1), NullLiteral))>>

\* func run(v) { for N { try {..} catch e {..} finally {..}  show "after" }  return "end" }
\* try { show run([1]) } catch o { show o }
TryProgram(b, c, f) ==
  Program(<<
    Func("run", <<Param("v")>>, <<
      Times(LoopCount, <<
        Try(<<Show(Str("body"))>> \o End(b, "body"),
            IF c = "none" THEN "" ELSE "e",
            IF c = "none" THEN <<>> ELSE <<Show(Id("e"))>> \o End(c, "catch"),
            IF f = "none" THEN <<>> ELSE <<Show(Str("finally"))>> \o End(f, "finally")),
        Show(Str("after"))>>),
      Ret(Str("end"))>>),
    Try(<<Show(Call("run", <<ListLiteral(<<Num(1)>>)>>))>>, "o", <<Show(Id("o"))>>, <<>>),
    Show(Str("done"))>>)

\* every combination the parser accepts (a try has a catch or a finally)
TryCombos ==
  LET nb == Len(BodyEnds)  nc == Len(CatchEnds)  nf == Len(FinallyEnds)
      all == [i \in 1..(nb * nc * nf) |->
                <<BodyEnds[((i - 1) % nb) + 1],
                  CatchEnds[(((i - 1) \div nb) % nc) + 1],
                  FinallyEnds[((i - 1) \div (nb * nc)) + 1]>>]
  IN  SelectSeq(all, LAMBDA x : ~(x[2] = "none" /\ x[3] = "none"))

TryPrograms == [i \in 1..Len(TryCombos) |->
                  TryProgram(TryCombos[i][1], TryCombos[i][2], TryCombos[i][3])]

\* --- call forms ----------------------------------------------------------
CallForms == <<"named", "expression", "method", "property", "super", "new",
               "class_by_name", "class_by_expression", "map", "forEach", "module",
               "toString">>
\* what the callee does
CalleeKinds == <<"nested_return", "reads_caller_local", "reads_shadowed", "no_return",
                 "missing_argument">>

\* a return under a loop, an if and a try/finally, with code after each
NestedReturn(e) ==
  <<Times(LoopCount, <<If(Num(1), <<Try(<<Ret(e)>>, "", <<>>, <<Show(Str("callee finally"))>>),
                                    Show(Str("after try"))>>),
                       Show(Str("after if"))>>),
    Show(Str("after loop"))>>

CalleeParams(kind) ==
  IF kind = "missing_argument" THEN <<Param("a"), Param("b")>>
  ELSE <<Param("a"), ParamDef("b", Id("k"))>>

CalleeBody(kind, b) ==
  CASE kind = "nested_return"      -> NestedReturn(b)
    [] kind = "reads_caller_local" -> <<Ret(Id("loc"))>>
    [] kind = "reads_shadowed"     -> <<Ret(Id("k"))>>
    [] kind = "no_return"          -> <<Show(b)>>
    [] kind = "missing_argument"   -> <<Show(Str("body reached"))>>

Callee(name, kind) == Func(name, CalleeParams(kind), CalleeBody(kind, Id("b")))

\* the module file "lib_<kind>.volt"
LibFile(kind) == <<Set("k", Str("module")), Callee("callee", kind)>>

\* declarations made at top level before the call
FormDecls(form, kind) ==
  CASE form = "named"      -> <<Callee("callee", kind)>>
    [] form = "expression" -> <<Callee("callee", kind), Set("fs", ListLiteral(<<Id("callee")>>))>>
    [] form = "method"     -> <<Class("A", "", <<Callee("m", kind)>>), Set("o", New("A", <<>>))>>
    [] form = "property"   -> <<Callee("callee", kind), Class("A", "", <<>>),
                                Set("o", New("A", <<>>)),
                                Assignment(Dot(Id("o"), "p"), Id("callee"))>>
    [] form = "super"      -> <<Class("A", "", <<Callee("m", kind)>>),
                                Class("B", "A",
                                  <<Func("m", <<Param("a"), ParamDef("k", Str("caller"))>>,
                                         <<Set("loc", Str("L")),
                                           Ret(SuperMethodCall("m", <<Id("a")>>))>>)>>),
                                Set("o", New("B", <<>>))>>
    [] form \in {"new", "class_by_name", "class_by_expression"} ->
         <<Class("C", "", <<Func("init", CalleeParams(kind),
                                 <<Assignment(Dot(ThisExpression, "x"), Id("a"))>>
                                 \o CalleeBody(kind, Id("b")))>>),
           Set("cs", ListLiteral(<<Id("C")>>))>>
    [] form \in {"map", "forEach"} ->
         <<Callee("callee", kind), Set("xs", ListLiteral(<<Num(1), Num(2)>>))>>
    [] form = "module"     -> <<UseStatement("lib_" \o kind)>>
    [] form = "toString"   ->
         <<Class("T", "", <<Func("toString", <<>>,
                                 CalleeBody(IF kind = "missing_argument" THEN "no_return"
                                            ELSE kind, Str("T!")))>>),
           Set("o", New("T", <<>>))>>

\* the call, passing the first argument only
FormCall(form, kind) ==
  CASE form = "named"      -> Call("callee", <<Num(1)>>)
    [] form = "expression" -> CallExpression(IndexAccess(Id("fs"), Num(0)), <<Num(1)>>)
    [] form = "method"     -> Meth(Id("o"), "m", <<Num(1)>>)
    [] form = "property"   -> Meth(Id("o"), "p", <<Num(1)>>)
    [] form = "super"      -> Meth(Id("o"), "m", <<Num(1)>>)
    [] form = "new"        -> Dot(New("C", <<Num(1)>>), "x")
    [] form = "class_by_name" -> Dot(Call("C", <<Num(1)>>), "x")
    [] form = "class_by_expression" -> Dot(CallExpression(IndexAccess(Id("cs"), Num(0)), <<Num(1)>>), "x")
    [] form = "map"        -> Meth(Id("xs"), "map", <<Id("callee")>>)
    [] form = "forEach"    -> Meth(Id("xs"), "forEach", <<Id("callee")>>)
    [] form = "module"     -> Meth(Id("lib_" \o kind), "callee", <<Num(1)>>)
    [] form = "toString"   -> Id("o")

\* set k = "global"  <declarations>
\* func caller(k) { set loc = "L"  for N { show <call> }  return "caller end" }
\* try { show caller("caller") } catch e { show e }
CallProgram(form, kind) ==
  Program(<<Set("k", Str("global"))>> \o FormDecls(form, kind) \o
          <<Func("caller", <<Param("k")>>,
                 <<Set("loc", Str("L")),
                   Times(LoopCount, <<Show(FormCall(form, kind))>>),
                   Ret(Str("caller end"))>>),
            Try(<<Show(Call("caller", <<Str("caller")>>))>>, "e", <<Show(Id("e"))>>, <<>>),
            Show(Str("done"))>>)

CallPrograms ==
  [i \in 1..(Len(CallForms) * Len(CalleeKinds)) |->
     CallProgram(CallForms[((i - 1) % Len(CallForms)) + 1],
                 CalleeKinds[((i - 1) \div Len(CallForms)) + 1])]

\* --- statements at top level ---------------------------------------------
TopLevelEnds == <<"normal", "throw", "rterr", "return", "break", "continue", "host">>

\* show "first"  <end>  show "second"
TopLevelProgram(how) ==
  Program(<<Show(Str("first"))>> \o End(how, "toplevel") \o <<Show(Str("second"))>>)

\* the same under a top-level try/finally, and escaping from a called function
TopLevelTryProgram(how) ==
  Program(<<Try(<<Show(Str("first"))>> \o End(how, "toplevel"), "", <<>>,
                <<Show(Str("cleanup"))>>),
            Show(Str("second"))>>)

TopLevelCallProgram(how) ==
  Program(<<Func("f", <<>>, End(how, "function")),
            Times(LoopCount, <<Show(Str("pass")), Show(Call("f", <<>>)), Show(Str("after f"))>>),
            Call("f", <<>>),
            Show(Str("second"))>>)

TopLevelPrograms ==
  [i \in 1..(3 * Len(TopLevelEnds)) |->
     LET how == TopLevelEnds[((i - 1) % Len(TopLevelEnds)) + 1]
     IN  CASE (i - 1) \div Len(TopLevelEnds) = 0 -> TopLevelProgram(how)
           [] (i - 1) \div Len(TopLevelEnds) = 1 -> TopLevelTryProgram(how)
           [] (i - 1) \div Len(TopLevelEnds) = 2 -> TopLevelCallProgram(how)]

\* --- scoping, assignment and closures ------------------------------------
\* set g = 1
\* func outer(p) { set l = 2
\*   func inner() { set g = 10  set l = 20  set p = 30  set n = 40  return n }
\*   show inner()  show l  show p  set g = g + 1
\*   try { throw 1 } catch e { set e = 5  set l = 6  set c = 7  show e }
\*   show l  return inner }
\* set h = outer(3)  show g  set g = 50  show h()  show g
ScopeProgram ==
  Program(<<
    Set("g", Num(1)),
    Func("outer", <<Param("p")>>, <<
      Set("l", Num(2)),
      Func("inner", <<>>, <<Set("g", Num(10)), Set("l", Num(20)), Set("p", Num(30)),
                            Set("n", Num(40)), Ret(Id("n"))>>),
      Show(Call("inner", <<>>)), Show(Id("l")), Show(Id("p")),
      Set("g", Bin("+", Id("g"), Num(1))),
      Try(<<ThrowStatement(Num(1))>>, "e",
          <<Set("e", Num(5)), Set("l", Num(6)), Set("c", Num(7)), Show(Id("e"))>>, <<>>),
      Show(Id("l")),
      Ret(Id("inner"))>>),
    Set("h", Call("outer", <<Num(3)>>)),
    Show(Id("g")), Set("g", Num(50)), Show(Call("h", <<>>)), Show(Id("g"))>>)

\* set x = 1   func get() { return x }   show get()   set x = 2   show get()
\* func mk() { set c = 0
\*   func inc() { set c = c + 1  return c }
\*   set read = () => c
\*   return [inc, read] }
\* set fs = mk()  set i = fs[0]  set r = fs[1]
\* for N { show i() }   show r()   set c = 100   show r()
\* set gs = mk()  set j = gs[0]  show j()  show r()
ClosureProgram ==
  Program(<<
    Set("x", Num(1)),
    Func("get", <<>>, <<Ret(Id("x"))>>),
    Show(Call("get", <<>>)), Set("x", Num(2)), Show(Call("get", <<>>)),
    Func("mk", <<>>, <<
      Set("c", Num(0)),
      Func("inc", <<>>, <<Set("c", Bin("+", Id("c"), Num(1))), Ret(Id("c"))>>),
      Set("read", LambdaExpression(<<>>, Id("c"))),
      Ret(ListLiteral(<<Id("inc"), Id("read")>>))>>),
    Set("fs", Call("mk", <<>>)),
    Set("i", IndexAccess(Id("fs"), Num(0))), Set("r", IndexAccess(Id("fs"), Num(1))),
    Times(LoopCount, <<Show(Call("i", <<>>))>>),
    Show(Call("r", <<>>)), Set("c", Num(100)), Show(Call("r", <<>>)),
    Set("gs", Call("mk", <<>>)), Set("j", IndexAccess(Id("gs"), Num(0))),
    Show(Call("j", <<>>)), Show(Call("r", <<>>))>>)

\* set i = 0
\* func scan() { while i < 4 { set i = i + 1
\*     if i == 1 { continue }   if i == 3 { return i }   show i }  return 0 }
\* show scan()
\* while i < 6 { set i = i + 1  if i == 5 { break } }   show i
\* while i < 7 { set i = i + 1 }   show i
WhileProgram ==
  Program(<<
    Set("i", Num(0)),
    Func("scan", <<>>, <<
      WhileStatement(Bin("<", Id("i"), Num(4)), <<
        Set("i", Bin("+", Id("i"), Num(1))),
        If(Bin("==", Id("i"), Num(1)), <<ContinueStatement>>),
        If(Bin("==", Id("i"), Num(3)), <<Ret(Id("i"))>>),
        Show(Id("i"))>>),
      Ret(Num(0))>>),
    Show(Call("scan", <<>>)),
    WhileStatement(Bin("<", Id("i"), Num(6)), <<
      Set("i", Bin("+", Id("i"), Num(1))),
      If(Bin("==", Id("i"), Num(5)), <<BreakStatement>>)>>),
    Show(Id("i")),
    WhileStatement(Bin("<", Id("i"), Num(7)), <<Set("i", Bin("+", Id("i"), Num(1)))>>),
    Show(Id("i"))>>)

ScopePrograms == <<ScopeProgram, ClosureProgram, WhileProgram>>

\* --- the evaluator's checks, each failing inside try { } catch e { show e } -
\* the module file "lib.volt"
LibErrFile == <<Func("probe", <<Param("m")>>, <<Ret(Dot(Id("m"), "nothing"))>>),
                Func("need", <<Param("a")>>, <<Ret(Id("a"))>>)>>

FailingStatements ==
  <<Show(Id("nope")),
    Show(Bin("/", Num(1), Num(0))),
    Show(Bin("%", Num(1), Num(0))),
    Show(IndexAccess(Id("xs"), Num(5))),
    Show(IndexAccess(Id("n"), Num(0))),
    Show(Dot(Id("xs"), "size")),
    Show(Dot(Id("s"), "size")),
    Show(Dot(Id("n"), "size")),
    Show(Dot(Id("o"), "missing")),
    Show(Dot(Id("A"), "missing")),
    Show(Call("n", <<>>)),
    Show(Call("nope", <<>>)),
    Show(CallExpression(IndexAccess(Id("xs"), Num(0)), <<>>)),
    Show(Meth(Id("o"), "missing", <<>>)),
    Show(Meth(Id("o"), "p", <<>>)),
    Show(Meth(NullLiteral, "m", <<>>)),
    Show(Meth(Id("xs"), "map", <<>>)),
    Show(Meth(Id("xs"), "map", <<Id("n")>>)),
    Show(Meth(Id("lib"), "missing", <<>>)),
    Show(Meth(Id("lib"), "probe", <<Id("lib")>>)),
    Show(Meth(Id("lib"), "need", <<>>)),
    Show(Dot(Id("lib"), "missing")),
    Show(New("A", <<Num(1)>>)),
    Show(New("n", <<>>)),
    Show(New("Nope", <<>>)),
    Show(Meth(Id("o"), "up", <<>>)),
    Show(Meth(Id("o"), "up2", <<>>)),
    Show(Meth(New("B", <<>>), "up2", <<>>)),
    Times(LoopCount, <<Show(Call("need", <<>>))>>),
    LoopTimesStatement(Id("s"), <<>>),
    Assignment(Dot(Id("n"), "x"), Num(1)),
    Class("D", "Nope", <<>>),
    Class("D", "n", <<>>),
    UseStatement("absent"),
    MethodCall(Id("xs"), "forEach", <<Id("thrower")>>)>>

\* set n = 1  set s = "text"  set xs = [1]
\* class A { func up() { return super.up() }  func up2() { return super.missing() } }
\* class B extends A { func up2() { return super.missing() } }
\* set o = new A()  set o.p = 1  use "lib"  func need(a) { return a }  func thrower(a) { throw a }
\* try { <statement> } catch e { show e  show e == <text> }   show "done"
ErrorProgram(stmt) ==
  Program(<<Set("n", Num(1)), Set("s", Str("text")), Set("xs", ListLiteral(<<Num(1)>>)),
            Class("A", "", <<Func("up", <<>>, <<Ret(SuperMethodCall("up", <<>>))>>),
                             Func("up2", <<>>, <<Ret(SuperMethodCall("missing", <<>>))>>)>>),
            Class("B", "A", <<Func("up2", <<>>, <<Ret(SuperMethodCall("missing", <<>>))>>)>>),
            Set("o", New("A", <<>>)), Assignment(Dot(Id("o"), "p"), Num(1)),
            UseStatement("lib"),
            Func("need", <<Param("a")>>, <<Ret(Id("a"))>>),
            Func("thrower", <<Param("a")>>, <<ThrowStatement(Id("a"))>>),
            Try(<<stmt>>, "e", <<Show(Id("e"))>>, <<>>),
            Show(Str("done"))>>)

ErrorPrograms == [i \in 1..Len(FailingStatements) |-> ErrorProgram(FailingStatements[i])]

\* --- construction ---------------------------------------------------------
ConstructClasses == <<"P", "Q", "E", "F">>
ConstructForms   == <<"new", "name", "expression">>

Construct(c, form, args) ==
  CASE form = "new"        -> New(ConstructClasses[c], args)
    [] form = "name"       -> Call(ConstructClasses[c], args)
    [] form = "expression" -> CallExpression(IndexAccess(Id("cs"), Num(c - 1)), args)

\* class P { func init(a) { set this.x = a  return 99 } }   class Q extends P { }
\* class E { }   class F extends E { }   set cs = [P, Q, E, F]
\* try { set o = <construct>  show o  set o.y = 5  set o2 = <construct>  show o2.x }
\* catch e { show e }
\* try { show o2.y } catch e { show e }
ConstructProgram(c, form, args) ==
  Program(<<
    Class("P", "", <<Func("init", <<Param("a")>>,
                          <<Assignment(Dot(ThisExpression, "x"), Id("a")), Ret(Num(99))>>)>>),
    Class("Q", "P", <<>>), Class("E", "", <<>>), Class("F", "E", <<>>),
    Set("cs", ListLiteral(<<Id("P"), Id("Q"), Id("E"), Id("F")>>)),
    Try(<<Set("o", Construct(c, form, args)), Show(Id("o")),
          Assignment(Dot(Id("o"), "y"), Num(5)),
          Set("o2", Construct(c, form, args)), Show(Dot(Id("o2"), "x"))>>,
        "e", <<Show(Id("e"))>>, <<>>),
    Try(<<Show(Dot(Id("o2"), "y"))>>, "e", <<Show(Id("e"))>>, <<>>),
    Show(Str("done"))>>)

ConstructPrograms ==
  [i \in 1..(Len(ConstructClasses) * Len(ConstructForms) * 2) |->
     ConstructProgram(((i - 1) % Len(ConstructClasses)) + 1,
                      ConstructForms[(((i - 1) \div Len(ConstructClasses)) % Len(ConstructForms)) + 1],
                      IF (i - 1) \div (Len(ConstructClasses) * Len(ConstructForms)) = 0
                        THEN <<>> ELSE <<Num(7)>>)]

\* --- super ----------------------------------------------------------------
SuperReceivers == <<"B", "C", "D">>

\* class A { func m(t) { show "A.m"  return "a" } }
\* class B extends A { func m(t) { show "B.m"  return super.m(t) } }
\* class C extends B { }   class D extends C { }
\* set o = new <receiver>()   try { show o.m(1) } catch e { show e }
SuperProgram(receiver) ==
  Program(<<
    Class("A", "", <<Func("m", <<Param("t")>>, <<Show(Str("A.m")), Ret(Str("a"))>>)>>),
    Class("B", "A", <<Func("m", <<Param("t")>>,
                           <<Show(Str("B.m")), Ret(SuperMethodCall("m", <<Id("t")>>))>>)>>),
    Class("C", "B", <<>>), Class("D", "C", <<>>),
    Set("o", New(receiver, <<>>)),
    Try(<<Show(Meth(Id("o"), "m", <<Num(1)>>))>>, "e", <<Show(Id("e"))>>, <<>>),
    Show(Str("done"))>>)

SuperPrograms == [i \in 1..Len(SuperReceivers) |-> SuperProgram(SuperReceivers[i])]

\* --- method lookup on an instance ------------------------------------------
MethodReceivers == <<"K", "L">>
MethodSetups ==
  <<<<>>,
    <<Assignment(Dot(Id("o"), "m"), Id("f"))>>, <<Assignment(Dot(Id("o"), "m"), Num(5))>>,
    <<Assignment(Dot(Id("o"), "n"), Id("f"))>>, <<Assignment(Dot(Id("o"), "n"), Num(5))>>>>
MethodNames == <<"m", "n", "z">>

\* class K { func m() { return "K.m" }  func n() { return "K.n" } }
\* class L extends K { func n() { return "L.n" } }
\* func f() { return "f" }
\* set o = new <receiver>()   [set o.<p> = <v>]
\* try { show o.<method>() } catch e { show e }
MethodProgram(receiver, setup, method) ==
  Program(<<
    Class("K", "", <<Func("m", <<>>, <<Ret(Str("K.m"))>>), Func("n", <<>>, <<Ret(Str("K.n"))>>)>>),
    Class("L", "K", <<Func("n", <<>>, <<Ret(Str("L.n"))>>)>>),
    Func("f", <<>>, <<Ret(Str("f"))>>),
    Set("o", New(receiver, <<>>))>>
    \o setup \o
    <<Try(<<Show(Meth(Id("o"), method, <<>>))>>, "e", <<Show(Id("e"))>>, <<>>),
      Show(Str("done"))>>)

MethodPrograms ==
  [i \in 1..30 |-> MethodProgram(MethodReceivers[((i - 1) \div 15) + 1],
                                 MethodSetups[(((i - 1) \div 3) % 5) + 1],
                                 MethodNames[((i - 1) % 3) + 1])]

\* --- list aliases ------------------------------------------------------------
\* the mutation `kind` of the list denoted by the expression x
Mutation(x, kind) ==
  CASE kind = "push statement" -> PushStatement(x, Num(9))
    [] kind = "pop statement"  -> PopStatement(x)
    [] kind = "index"          -> Assignment(IndexAccess(x, Num(0)), Num(9))
    [] kind = "insert"         -> Meth(x, "insert", <<Num(1), Num(9)>>)
    [] kind = "remove"         -> Meth(x, "remove", <<Num(2)>>)
    [] kind = "fill"           -> Meth(x, "fill", <<Num(0)>>)
    [] kind \in {"pop", "shift", "clear"} -> Meth(x, kind, <<>>)
    [] OTHER                   -> Meth(x, kind, <<Num(9)>>)

MutationKinds ==
  <<"push statement", "pop statement", "index", "push", "pop", "shift", "unshift",
    "insert", "remove", "fill", "clear">>

\* the references to the one list: a, b (assigned from a), p (a passed as
\* argument), h[0], d.l, o.l
AliasRefs ==
  <<Id("a"), Id("b"), Id("p"), IndexAccess(Id("h"), Num(0)), Dot(Id("d"), "l"),
    Dot(Id("o"), "l")>>

SecondSteps ==
  <<Mutation(Id("a"), "push statement"),
    Assignment(IndexAccess(IndexAccess(Id("h"), Num(0)), Num(0)), Num(8)),
    Mutation(Dot(Id("o"), "l"), "shift")>>

ShowAliases ==
  <<Show(Id("a")), Show(Id("b")), Show(IndexAccess(Id("h"), Num(0))),
    Show(Dot(Id("d"), "l")), Show(Dot(Id("o"), "l"))>>

\* class Box { }  set a = [1, 2, 3]  set b = a  set h = [a]  set d = {l: a}
\* set o = new Box()  set o.l = a  func g(p) { <mutation of p> }
\* <mutation through the reference, or g(a)>  show a, b, h[0], d.l, o.l
\* <second mutation>  show a, b, h[0], d.l, o.l
AliasProgram(ref, kind, second) ==
  Program(<<
    Class("Box", "", <<>>),
    Set("a", ListLiteral(<<Num(1), Num(2), Num(3)>>)),
    Set("b", Id("a")),
    Set("h", ListLiteral(<<Id("a")>>)),
    Set("d", DictLiteral(<<<<Str("l"), Id("a")>>>>)),
    Set("o", New("Box", <<>>)),
    Assignment(Dot(Id("o"), "l"), Id("a")),
    Func("g", <<Param("p")>>, <<Mutation(Id("p"), kind)>>),
    IF ref = Id("p") THEN Call("g", <<Id("a")>>) ELSE Mutation(ref, kind)>>
    \o ShowAliases \o <<second>> \o ShowAliases)

AliasPrograms ==
  [i \in 1..198 |-> AliasProgram(AliasRefs[((i - 1) \div 33) + 1],
                                 MutationKinds[(((i - 1) \div 3) % 11) + 1],
                                 SecondSteps[((i - 1) % 3) + 1])]

\* --- and / or ----------------------------------------------------------------
LeftValues ==
  <<Num(0), Num(1), Str(""), Str("s"), NullLiteral, ListLiteral(<<>>), ListLiteral(<<Num(0)>>),
    BooleanLiteral(TRUE), BooleanLiteral(FALSE), DictLiteral(<<>>)>>
RightValues == <<Str("R"), Num(0)>>

\* func l() { show "l"  return <left> }   func r() { show "r"  return <right> }
\* set either = l() or r()     (set both = l() and r())
\* show either                 (show both)
LogicProgram(op, left, right) ==
  LET x == IF op = "or" THEN "either" ELSE "both"
  IN  Program(<<
        Func("l", <<>>, <<Show(Str("l")), Ret(left)>>),
        Func("r", <<>>, <<Show(Str("r")), Ret(right)>>),
        Set(x, Bin(op, Call("l", <<>>), Call("r", <<>>))),
        Show(Id(x))>>)

LogicPrograms ==
  [i \in 1..40 |-> LogicProgram(IF i <= 20 THEN "or" ELSE "and",
                                LeftValues[(((i - 1) \div 2) % 10) + 1],
                                RightValues[((i - 1) % 2) + 1])]

\* --- operators on mismatched types ------------------------------------------
Mismatches ==
  <<Bin("-", Num(1), NullLiteral), Bin("/", Num(1), NullLiteral), Bin("<", Num(1), NullLiteral),
    Bin("-", Num(1), ListLiteral(<<Num(1)>>)), Bin("/", Num(1), ListLiteral(<<Num(1)>>)),
    Bin("<", Num(1), ListLiteral(<<Num(1)>>)), UnaryOp("-", Str("s")),
    UnaryOp("-", Num(1)), UnaryOp("not", Str("s")), Bin("/", Num(1), Num(0))>>

\* try { show <expression> } catch e { show "caught" show e }   show "after"
MismatchProgram(e) ==
  Program(<<Try(<<Show(e)>>, "e", <<Show(Str("caught")), Show(Id("e"))>>, <<>>),
            Show(Str("after"))>>)

MismatchPrograms == [i \in 1..Len(Mismatches) |-> MismatchProgram(Mismatches[i])]

\* --- argument counts -----------------------------------------------------------
ArityCalls(args) ==
  <<Call("f", args), Call("g", args), Meth(Id("k"), "m", args), New("K", args)>>
ArityArgs == <<<<>>, <<Num(1)>>, <<Num(1), Num(2)>>>>

\* func f(a) { show "f"  return a }   set g = (a) => a
\* class K { func init(a) { show "init" }  func m(a) { show "m"  return a } }
\* set k = new K(1)   try { show <call> } catch e { show e }
ArityProgram(call) ==
  Program(<<
    Func("f", <<Param("a")>>, <<Show(Str("f")), Ret(Id("a"))>>),
    Set("g", LambdaExpression(<<Param("a")>>, Id("a"))),
    Class("K", "", <<Func("init", <<Param("a")>>, <<Show(Str("init"))>>),
                     Func("m", <<Param("a")>>, <<Show(Str("m")), Ret(Id("a"))>>)>>),
    Set("k", New("K", <<Num(1)>>)),
    Try(<<Show(call)>>, "e", <<Show(Id("e"))>>, <<>>),
    Show(Str("done"))>>)

ArityPrograms ==
  [i \in 1..12 |-> ArityProgram(ArityCalls(ArityArgs[((i - 1) % 3) + 1])[((i - 1) \div 3) + 1])]

\* --- for-in over a collection that its body changes --------------------------
DictLoopBodies ==
  <<<<Assignment(Dot(Id("d"), "c"), Num(3))>>,
    <<Meth(Id("d"), "remove", <<Str("a")>>)>>,
    <<Assignment(IndexAccess(Id("d"), Id("k")), Num(0))>>,
    <<Meth(Id("d"), "remove", <<Str("zz")>>)>>,
    <<Meth(Id("d"), "clear", <<>>)>>,
    <<Assignment(Dot(Id("d"), "c"), Num(3)), BreakStatement>>,
    <<If(Bin("==", Id("k"), Str("b")), <<Assignment(Dot(Id("d"), "c"), Num(3))>>)>>>>

ListLoopBodies ==
  <<<<PopStatement(Id("xs"))>>,
    <<Meth(Id("xs"), "clear", <<>>)>>,
    <<If(Bin("<", Dot(Id("xs"), "length"), Num(4)), <<PushStatement(Id("xs"), Num(9))>>)>>,
    <<Meth(Id("xs"), "remove", <<Id("x")>>)>>,
    <<Assignment(IndexAccess(Id("xs"), Num(0)), Num(7))>>,
    <<Meth(Id("xs"), "shift", <<>>)>>>>

\* set d = {a: 1, b: 2}   set xs = [1, 2]
\* try { for k[, v] in d { show k  <body> } } catch e { show "caught"  show e }
\* (or: for [i, ]x in xs { show x  <body> })   show d   show xs
IterProgram(loop) ==
  Program(<<
    Set("d", DictLiteral(<<<<Str("a"), Num(1)>>, <<Str("b"), Num(2)>>>>)),
    Set("xs", ListLiteral(<<Num(1), Num(2)>>)),
    Try(<<loop>>, "e", <<Show(Str("caught")), Show(Id("e"))>>, <<>>),
    Show(Id("d")), Show(Id("xs"))>>)

IterPrograms ==
  [i \in 1..26 |->
     LET two == i > 13
         j == ((i - 1) % 13) + 1
     IN  IterProgram(
           IF j <= 7
             THEN ForInStatement("k", IF two THEN "v" ELSE "", Id("d"),
                                 <<Show(Id("k"))>> \o DictLoopBodies[j])
             ELSE ForInStatement(IF two THEN "i" ELSE "x", IF two THEN "x" ELSE "", Id("xs"),
                                 <<Show(Id("x"))>> \o ListLoopBodies[j - 7]))]

\* --- list destructuring -------------------------------------------------------
DestructureValues ==
  <<ListLiteral(<<Num(1), Num(2), Num(3)>>), ListLiteral(<<Num(1), Num(2)>>),
    ListLiteral(<<Num(1)>>), ListLiteral(<<>>), Str("ab"), NullLiteral, Num(5),
    DictLiteral(<<>>)>>
DestructureNames == <<<<"n1", "n2">>, <<"n1">>, <<"n1", "n2", "n1">>>>

\* set n1 = "old"
\* func f() { set [<names>] = <value>  show n1 }
\* try { set [<names>] = <value>  (or: f())  show n1 } catch e { show e }
\* show n1
DestructureProgram(names, value, inside) ==
  Program(<<
    Set("n1", Str("old")),
    Func("f", <<>>, <<DestructureList(names, value), Show(Id("n1"))>>),
    Try(<<IF inside THEN Call("f", <<>>) ELSE DestructureList(names, value), Show(Id("n1"))>>,
        "e", <<Show(Id("e"))>>, <<>>),
    Show(Id("n1"))>>)

DestructurePrograms ==
  [i \in 1..48 |-> DestructureProgram(DestructureNames[(((i - 1) \div 8) % 3) + 1],
                                      DestructureValues[((i - 1) % 8) + 1], i > 24)]

\* --- the catch clause's frame ----------------------------------------------
CatchBodies ==
  <<<<Set("fresh", Num(2)), Show(Id("fresh"))>>,
    <<Set("e", Num(5)), Show(Id("e"))>>,
    <<Set("fresh", Id("e")), Set("e", Num(5)), Show(Id("fresh"))>>>>
CatchRaises == <<ThrowStatement(Num(7)), Show(Id("nowhere"))>>

\* try { set tb = 1  <raise> } catch e { <body> } finally { set fin = 3 }
\* show tb  show fin
\* try { show fresh } catch x { show x }
\* try { show e } catch x { show x }
CatchScopeStatements(body, raise) ==
  <<Try(<<Set("tb", Num(1)), raise>>, "e", body, <<Set("fin", Num(3))>>),
    Show(Id("tb")), Show(Id("fin")),
    Try(<<Show(Id("fresh"))>>, "x", <<Show(Id("x"))>>, <<>>),
    Try(<<Show(Id("e"))>>, "x", <<Show(Id("x"))>>, <<>>)>>

\* (set e = "old")  then the statements, at top level or as the body of f
CatchScopeProgram(body, raise, pre, inside) ==
  Program((IF pre THEN <<Set("e", Str("old"))>> ELSE <<>>)
          \o (IF inside
                THEN <<Func("f", <<>>, CatchScopeStatements(body, raise)),
                       Call("f", <<>>)>>
                ELSE CatchScopeStatements(body, raise)))

CatchScopePrograms ==
  [i \in 1..24 |-> CatchScopeProgram(CatchBodies[((i - 1) % 3) + 1],
                                     CatchRaises[(((i - 1) \div 3) % 2) + 1],
                                     ((i - 1) \div 6) % 2 = 1, i > 12)]

\* --- dict destructuring -------------------------------------------------------
PatternClasses ==
  <<Class("K", "", <<Func("init", <<>>,
       <<Assignment(Dot(ThisExpression, "n1"), Num(1)),
         Assignment(Dot(ThisExpression, "n2"), Num(2))>>)>>),
    Class("K1", "", <<Func("init", <<>>,
       <<Assignment(Dot(ThisExpression, "n1"), Num(1))>>)>>)>>
PatternValues ==
  <<DictLiteral(<<<<Str("n1"), Num(1)>>, <<Str("n2"), Num(2)>>>>),
    DictLiteral(<<<<Str("n1"), Num(1)>>>>), DictLiteral(<<<<Str("n2"), Num(2)>>>>),
    DictLiteral(<<>>), New("K", <<>>), New("K1", <<>>),
    ListLiteral(<<Num(1), Num(2)>>), NullLiteral>>
PatternNames == <<<<"n1", "n2">>, <<"n2", "n1">>, <<"n1">>>>

\* set n1 = "old"
\* class K { func init() { set this.n1 = 1  set this.n2 = 2 } }   class K1 ...
\* func f() { set {<names>} = <value>  show n1 }
\* try { set {<names>} = <value>  (or: f())  show n1 } catch e { show e }
\* show n1
\* try { show n2 } catch e { show e }
PatternProgram(names, value, inside) ==
  Program(<<Set("n1", Str("old"))>> \o PatternClasses \o <<
    Func("f", <<>>, <<DestructureDict(names, value), Show(Id("n1"))>>),
    Try(<<IF inside THEN Call("f", <<>>) ELSE DestructureDict(names, value), Show(Id("n1"))>>,
        "e", <<Show(Id("e"))>>, <<>>),
    Show(Id("n1")),
    Try(<<Show(Id("n2"))>>, "e", <<Show(Id("e"))>>, <<>>)>>)

PatternPrograms ==
  [i \in 1..48 |-> PatternProgram(PatternNames[(((i - 1) \div 8) % 3) + 1],
                                  PatternValues[((i - 1) % 8) + 1], i > 24)]

\* --- properties of a dict -----------------------------------------------------
PropNames == <<"size", "length", "keys", "k">>
PropValues == <<Num(7), Str("v")>>
PropDicts == <<DictLiteral(<<>>), DictLiteral(<<<<Str("k"), Num(1)>>, <<Str("size"), Num(0)>>>>)>>

\* set d = <dict>  set d.<name> = <value>  show d.<name>  show d["<name>"]  show d.size
PropProgram(name, value, dict) ==
  Program(<<Set("d", dict),
            Assignment(Dot(Id("d"), name), value),
            Show(Dot(Id("d"), name)),
            Show(IndexAccess(Id("d"), Str(name))),
            Show(Dot(Id("d"), "size"))>>)

PropPrograms ==
  [i \in 1..16 |-> PropProgram(PropNames[((i - 1) % 4) + 1],
                               PropValues[(((i - 1) \div 4) % 2) + 1],
                               PropDicts[((i - 1) \div 8) + 1])]

\* --- named calls of built-ins ---------------------------------------------------
BuiltinNames == <<"len", "type">>
\* what the program binds to the built-in's name before the call
BuiltinBindings(name) ==
  <<<<>>,
    <<Func(name, <<Param("x")>>, <<Ret(Str("user"))>>)>>,
    <<Set(name, Num(5))>>,
    <<Class(name, "", <<>>)>>>>
BuiltinArgs ==
  <<<<Call("mark", <<ListLiteral(<<Num(1), Num(2)>>)>>)>>,
    <<Call("mark", <<Str("ab")>>), Call("mark", <<Num(2)>>)>>,
    <<Call("mark", <<Num(3)>>)>>>>

\* func mark(v) { show v  return v }
\* <binding>  try { show <name>(<args>) } catch e { show e }
\* the binding and the call at top level, or both in the body of g
BuiltinProgram(name, binding, args, inside) ==
  LET stmts == binding \o <<Try(<<Show(Call(name, args))>>, "e", <<Show(Id("e"))>>, <<>>)>>
  IN  Program(<<Func("mark", <<Param("v")>>, <<Show(Id("v")), Ret(Id("v"))>>)>>
              \o (IF inside THEN <<Func("g", <<>>, stmts), Call("g", <<>>)>> ELSE stmts))

BuiltinPrograms ==
  [i \in 1..48 |-> BuiltinProgram(BuiltinNames[((i - 1) % 2) + 1],
                                  BuiltinBindings(BuiltinNames[((i - 1) % 2) + 1])[(((i - 1) \div 2) % 4) + 1],
                                  BuiltinArgs[(((i - 1) \div 8) % 3) + 1], i > 24)]

Catalogue ==
  TryPrograms \o CallPrograms \o TopLevelPrograms \o ScopePrograms \o ErrorPrograms
  \o ConstructPrograms \o SuperPrograms \o MethodPrograms \o AliasPrograms \o LogicPrograms \o MismatchPrograms \o ArityPrograms \o IterPrograms \o DestructurePrograms \o CatchScopePrograms \o PatternPrograms \o PropPrograms \o BuiltinPrograms

\* the module files on disk: file name without ".volt" -> parsed statements
ModuleFiles ==
  [m \in {"lib"} \cup {"lib_" \o CalleeKinds[i] : i \in 1..Len(CalleeKinds)} |->
     IF m = "lib" THEN LibErrFile
     ELSE LibFile(CHOOSE kind \in {CalleeKinds[i] : i \in 1..Len(CalleeKinds)} :
                    m = "lib_" \o kind)]


-----------------------------------------------------------------------------
(* Runtime values.  Every value is a record of the same shape; lists,      *)
(* functions, classes, instances and modules are references (n = address). *)

NullV      == [k |-> "null",     n |-> 0, s |-> ""]
IntV(i)    == [k |-> "int",      n |-> i, s |-> ""]
FloatV(i)  == [k |-> "float",    n |-> i, s |-> ""]
BoolV(b)   == [k |-> "boolean",  n |-> IF b THEN 1 ELSE 0, s |-> ""]
StrV(t)    == [k |-> "string",   n |-> 0, s |-> t]
ListV(a)   == [k |-> "list",     n |-> a, s |-> ""]
FuncV(a)   == [k |-> "function", n |-> a, s |-> ""]
ClassV(a)  == [k |-> "class",    n |-> a, s |-> ""]
InstV(a)   == [k |-> "instance", n |-> a, s |-> ""]
ModV(a)    == [k |-> "module",   n |-> a, s |-> ""]
DictV(a)   == [k |-> "dict",     n |-> a, s |-> ""]

EmptyMap == [x \in {} |-> NullV]
MapPut(m, x, v) == [y \in DOMAIN m \cup {x} |-> IF y = x THEN v ELSE m[y]]

Digit(d) == CASE d = 0 -> "0" [] d = 1 -> "1" [] d = 2 -> "2" [] d = 3 -> "3"
              [] d = 4 -> "4" [] d = 5 -> "5" [] d = 6 -> "6" [] d = 7 -> "7"
              [] d = 8 -> "8" [] d = 9 -> "9"

RECURSIVE NatToStr(_)
NatToStr(i) == IF i < 10 THEN Digit(i) ELSE NatToStr(i \div 10) \o Digit(i % 10)

IntToStr(i) == IF i < 0 THEN "-" \o NatToStr(0 - i) ELSE NatToStr(i)

-----------------------------------------------------------------------------
(* Environment: src/interpreter.py 42-70.  parent = 0 is None.             *)

Environment(parent) == [variables |-> EmptyMap, parent |-> parent]

RECURSIVE Environment_get(_, _, _)
Environment_get(es, e, name) ==
  IF name \in DOMAIN es[e].variables
    THEN [found |-> TRUE, value |-> es[e].variables[name], frame |-> e]
    ELSE IF es[e].parent # 0
      THEN Environment_get(es, es[e].parent, name)
      ELSE [found |-> FALSE, value |-> NullV, frame |-> 0]

Environment_set(es, e, name, value) ==
  [es EXCEPT ![e].variables = MapPut(es[e].variables, name, value)]

RECURSIVE Environment_update(_, _, _, _)
Environment_update(es, e, name, value) ==
  IF name \in DOMAIN es[e].variables
    THEN [ok |-> TRUE, envs |-> Environment_set(es, e, name, value)]
    ELSE IF es[e].parent # 0
      THEN Environment_update(es, es[e].parent, name, value)
      ELSE [ok |-> FALSE, envs |-> es]

\* VoltRuntimeError.__init__: the text the exception object carries
\* a variant that keeps the bare message, for comparison
VoltRuntimeError_bare(message) == message

VoltRuntimeError_init(message) == "Runtime Error: " \o message

\* VoltClass.find_method: address of the VoltFunction, 0 for None
\* a lookup that stops at the class itself
find_method_own(cs, c, name) ==
  IF name \in DOMAIN cs[c].methods THEN cs[c].methods[name] ELSE 0

RECURSIVE find_method(_, _, _)
find_method(cs, c, name) ==
  IF name \in DOMAIN cs[c].methods THEN cs[c].methods[name]
  ELSE IF cs[c].parent # 0 THEN find_method(cs, cs[c].parent, name)
  ELSE 0

-----------------------------------------------------------------------------
(* Interpreter helpers: src/interpreter.py 1286-1338.                      *)

_is_truthy(v) ==
  CASE v.k = "null"    -> FALSE
    [] v.k = "boolean" -> v.n = 1
    [] v.k = "int"     -> v.n # 0
    [] v.k = "float"   -> v.n # 0
    [] v.k = "string"  -> v.s # ""
    [] v.k = "list"    -> Len(lists[v.n]) > 0
    [] v.k = "dict"    -> Len(dicts[v.n]) > 0
    [] OTHER           -> TRUE

_type_name(v) ==
  CASE v.k = "instance" -> classes[insts[v.n].klass].name
    [] OTHER            -> v.k

\* the instance's class chain defines toString
HasToString(v) == v.k = "instance" /\ find_method(classes, insts[v.n].klass, "toString") # 0

RECURSIVE JoinParams(_, _)
JoinParams(ps, i) ==
  IF i > Len(ps) THEN ""
  ELSE ps[i].name \o (IF i < Len(ps) THEN ", " ELSE "") \o JoinParams(ps, i + 1)

\* VoltFunction.__repr__, VoltClass.__repr__, VoltInstance.__repr__, VoltModule.__repr__
Repr(v) ==
  CASE v.k = "function" -> "<func " \o funcs[v.n].name \o "(" \o JoinParams(funcs[v.n].params, 1) \o ")>"
    [] v.k = "class"    -> "<class " \o classes[v.n].name \o ">"
    [] v.k = "instance" -> "<" \o classes[insts[v.n].klass].name \o " instance>"
    [] v.k = "module"   -> "<module '" \o mods[v.n].name \o "'>"

\* _to_string for every value that needs no call of a user toString method
RECURSIVE _to_string(_)
RECURSIVE JoinItems(_, _)
JoinItems(xs, i) ==
  IF i > Len(xs) THEN ""
  ELSE _to_string(xs[i]) \o (IF i < Len(xs) THEN ", " ELSE "") \o JoinItems(xs, i + 1)

RECURSIVE JoinPairs(_, _)
JoinPairs(d, i) ==
  IF i > Len(d) THEN ""
  ELSE _to_string(d[i].key) \o ": " \o _to_string(d[i].value)
       \o (IF i < Len(d) THEN ", " ELSE "") \o JoinPairs(d, i + 1)

_to_string(v) ==
  CASE v.k = "null"    -> "null"
    [] v.k = "boolean" -> IF v.n = 1 THEN "true" ELSE "false"
    [] v.k = "float"   -> IntToStr(v.n)
    [] v.k = "int"     -> IntToStr(v.n)
    [] v.k = "string"  -> v.s
    [] v.k = "list"    -> "[" \o JoinItems(lists[v.n], 1) \o "]"
    [] v.k = "dict"    -> "{" \o JoinPairs(dicts[v.n], 1) \o "}"
    [] OTHER           -> Repr(v)

\* a value whose stringification would call a user toString from inside the
\* recursive stringifier; such programs are outside the catalogue
RECURSIVE StringifyCalls(_)
StringifyCalls(v) ==
  \/ HasToString(v)
  \/ v.k = "list" /\ \E i \in 1..Len(lists[v.n]) : StringifyCalls(lists[v.n][i])
  \/ v.k = "dict" /\ \E i \in 1..Len(dicts[v.n]) : StringifyCalls(dicts[v.n][i].value)

-----------------------------------------------------------------------------
(* Machine configurations.  A handler step ends by dispatching a child     *)
(* node (execute), returning a value to its caller, or raising.            *)

\* an exception object: its class, the Volt value it carries (ReturnSignal.value,
\* VoltThrowError.value), str(e), and for the history the message its raiser
\* passed and a fresh identity
NoSig == [type |-> "none", value |-> NullV, text |-> "", raw |-> "", id |-> 0]

Top   == IF stack = <<>> THEN [k |-> "toplevel"] ELSE stack[Len(stack)]
Below == SubSeq(stack, 1, Len(stack) - 1)

EvalC(stk, nd, e) ==
  [stack |-> stk, mode |-> "eval", cur |-> <<nd>>, cenv |-> e, val |-> NullV, sig |-> NoSig]
ValueC(stk, v) ==
  [stack |-> stk, mode |-> "value", cur |-> <<>>, cenv |-> 0, val |-> v, sig |-> NoSig]
StepC(stk) ==
  [stack |-> stk, mode |-> "step", cur |-> <<>>, cenv |-> 0, val |-> NullV, sig |-> NoSig]
ApplyC(stk) ==
  [stack |-> stk, mode |-> "apply", cur |-> <<>>, cenv |-> 0, val |-> NullV, sig |-> NoSig]
SignalC(stk, s) ==
  [stack |-> stk, mode |-> "signal", cur |-> <<>>, cenv |-> 0, val |-> NullV, sig |-> s]
RaiseC(stk, type, value, text, raw) ==
  SignalC(stk, [type |-> type, value |-> value, text |-> text, raw |-> raw, id |-> nid])
\* raise VoltRuntimeError(message)
RuntimeErrorC(stk, message) ==
  RaiseC(stk, "VoltRuntimeError", NullV, VoltRuntimeError_init(message), message)
\* an exception of the host language (TypeError, KeyError, ...) raised by an operation
HostErrorC(stk, class, text) == RaiseC(stk, class, NullV, text, "")

Go(c) ==
  /\ stack' = c.stack
  /\ mode' = c.mode
  /\ cur' = c.cur
  /\ cenv' = c.cenv
  /\ val' = c.val
  /\ sig' = c.sig
  /\ nid' = nid + 1
  /\ UNCHANGED frontvars

Log(evs) == trace' = trace \o evs

\* a construct the model does not cover was reached
Unmodelled ==
  /\ status' = "unmodelled"
  /\ mode' = "halt"
  /\ UNCHANGED <<pid, cur, cenv, val, sig, stack, heapvars, out, trace, nid>>
  /\ UNCHANGED frontvars

\* _exec_block(statements, env) called by the handler on top of stk
BlockFrame(stmts, e) == [k |-> "block", stmts |-> stmts, env |-> e, pc |-> 1]
BlockC(stk, stmts, e) ==
  IF stmts = <<>> THEN ValueC(stk, NullV)
  ELSE EvalC(Append(stk, BlockFrame(stmts, e)), stmts[1], e)

-----------------------------------------------------------------------------
(* execute(): src/interpreter.py 660-665, and the evaluation of a          *)
(* handler's sub-expressions, left to right, before the handler acts.      *)

\* key1, value1, key2, value2, ... of the (key, value) pairs ps
RECURSIVE Flatten(_)
Flatten(ps) == IF ps = <<>> THEN <<>> ELSE <<ps[1][1], ps[1][2]>> \o Flatten(Tail(ps))

\* the sub-expressions a handler evaluates first, in the order it does
Operands(nd) ==
  CASE nd.t = "ListLiteral"        -> nd.elements
    [] nd.t = "DictLiteral"        -> Flatten(nd.pairs)
    [] nd.t = "PushStatement"      -> <<nd.list_expr, nd.value>>
    [] nd.t = "PopStatement"       -> <<nd.list_expr>>
    [] nd.t = "IndexAccess"        -> <<nd.obj, nd.index>>
    [] nd.t = "DotAccess"          -> <<nd.obj>>
    [] nd.t = "BinaryOp"           ->
         IF nd.op \in {"and", "or"} THEN <<nd.left>> ELSE <<nd.left, nd.right>>
    [] nd.t = "UnaryOp"            -> <<nd.operand>>
    [] nd.t = "DestructureList"    -> <<nd.value>>
    [] nd.t = "DestructureDict"    -> <<nd.value>>
    [] nd.t = "ForInStatement"     -> <<nd.iterable>>
    [] nd.t = "FunctionCall"       -> nd.args
    [] nd.t = "CallExpression"     -> <<nd.callee>> \o nd.args
    [] nd.t = "MethodCall"         -> <<nd.obj>> \o nd.args
    [] nd.t = "NewExpression"      -> nd.args
    [] nd.t = "SuperMethodCall"    -> nd.args
    [] nd.t = "Assignment"         ->
         IF nd.target.t = "DotAccess" THEN <<nd.value, nd.target.obj>>
         ELSE IF nd.target.t = "IndexAccess" THEN <<nd.value, nd.target.obj, nd.target.index>>
         ELSE <<nd.value>>
    [] nd.t = "ShowStatement"      -> <<nd.expression>>
    [] nd.t = "IfStatement"        -> <<nd.condition>>
    [] nd.t = "LoopTimesStatement" -> <<nd.count>>
    [] nd.t = "ReturnStatement"    -> nd.value
    [] nd.t = "ThrowStatement"     -> <<nd.value>>
    [] OTHER                       -> <<>>

\* node kinds whose handler starts by evaluating Operands(node)
OperandKinds ==
  {"NumberLiteral", "StringLiteral", "NullLiteral", "BooleanLiteral", "ListLiteral", "Identifier",
   "ThisExpression", "IndexAccess", "DotAccess", "BinaryOp", "FunctionCall",
   "CallExpression", "MethodCall", "Assignment", "ShowStatement", "IfStatement",
   "LoopTimesStatement", "ReturnStatement", "ThrowStatement", "DictLiteral",
   "PushStatement", "PopStatement", "UnaryOp", "ForInStatement", "DestructureList",
   "DestructureDict"}

OperandsFrame(nd, e) == [k |-> "operands", node |-> nd, env |-> e, vals |-> <<>>]

EnterC(stk, nd, e) ==
  IF Operands(nd) = <<>> THEN ApplyC(Append(stk, OperandsFrame(nd, e)))
  ELSE EvalC(Append(stk, OperandsFrame(nd, e)), Operands(nd)[1], e)

execute ==
  /\ mode = "eval"
  /\ cur[1].t \in OperandKinds
  /\ Go(EnterC(stack, cur[1], cenv))
  /\ UNCHANGED <<pid, status, heapvars, out, trace>>

\* a sub-expression returned: evaluate the next one, or let the handler act
OperandDone ==
  /\ mode = "value"
  /\ Top.k = "operands"
  /\ LET vs  == Append(Top.vals, val)
         stk == [stack EXCEPT ![Len(stack)].vals = vs]
     IN  Go(IF Len(vs) < Len(Operands(Top.node))
              THEN EvalC(stk, Operands(Top.node)[Len(vs) + 1], Top.env)
              ELSE ApplyC(stk))
  /\ UNCHANGED <<pid, status, heapvars, out, trace>>

\* the handler of node kind t has its operands and acts
Acting(t) == mode = "apply" /\ Top.k = "operands" /\ Top.node.t = t

-----------------------------------------------------------------------------
(* Literals and identifiers: src/interpreter.py 675-711.                   *)

_exec_Literal ==
  /\ \/ Acting("NumberLiteral") /\ Go(ValueC(Below, IntV(Top.node.n)))
     \/ Acting("StringLiteral") /\ Go(ValueC(Below, StrV(Top.node.s)))
     \/ Acting("NullLiteral")   /\ Go(ValueC(Below, NullV))
     \/ Acting("BooleanLiteral") /\ Go(ValueC(Below, BoolV(Top.node.value)))
  /\ UNCHANGED <<pid, status, heapvars, out, trace>>

_exec_ListLiteral ==
  /\ Acting("ListLiteral")
  /\ lists' = Append(lists, Top.vals)
  /\ Go(ValueC(Below, ListV(Len(lists) + 1)))
  /\ UNCHANGED <<pid, status, envs, funcs, classes, insts, dicts, mods, out, trace>>

\* repr() of a dict key
PyRepr(v) == IF v.k = "string" THEN "'" \o v.s \o "'" ELSE IntToStr(v.n)

\* the position (from 1) of Python index idx in a list of length len; 0: out of range
ListIndex(len, idx) ==
  IF idx < 0 - len \/ idx >= len THEN 0 ELSE IF idx < 0 THEN len + idx + 1 ELSE idx + 1

\* Python dict operations on an entry sequence d (keys: strings and ints)
DictHas(d, key) == \E i \in 1..Len(d) : d[i].key = key
DictGet(d, key) == d[CHOOSE i \in 1..Len(d) : d[i].key = key].value
\* d[key] = value: an existing key keeps its place
DictPut(d, key, value) ==
  IF DictHas(d, key)
    THEN [i \in 1..Len(d) |-> IF d[i].key = key THEN [key |-> key, value |-> value] ELSE d[i]]
    ELSE Append(d, [key |-> key, value |-> value])
DictDel(d, key) == SelectSeq(d, LAMBDA e : e.key # key)
Hashable(v) == v.k \in {"string", "int"}

RECURSIVE DictOf(_)
DictOf(vals) ==
  IF vals = <<>> THEN <<>>
  ELSE DictPut(DictOf(SubSeq(vals, 1, Len(vals) - 2)), vals[Len(vals) - 1], vals[Len(vals)])

_exec_DictLiteral ==
  /\ Acting("DictLiteral")
  /\ IF \E i \in 1..Len(Top.vals) : i % 2 = 1 /\ ~Hashable(Top.vals[i])
       THEN Unmodelled
       ELSE /\ dicts' = Append(dicts, DictOf(Top.vals))
            /\ Go(ValueC(Below, DictV(Len(dicts) + 1)))
            /\ UNCHANGED <<pid, status, envs, funcs, classes, insts, lists, mods, out, trace>>

\* the call activation whose body is running (0 at top level)
RECURSIVE InnermostCall(_)
InnermostCall(stk) ==
  IF stk = <<>> THEN 0
  ELSE IF stk[Len(stk)].k = "call" /\ stk[Len(stk)].phase = "body" THEN stk[Len(stk)].id
  ELSE InnermostCall(SubSeq(stk, 1, Len(stk) - 1))

_exec_Identifier ==
  /\ \/ Acting("Identifier")
     \/ Acting("ThisExpression")
  /\ LET name == IF Top.node.t = "ThisExpression" THEN "this" ELSE Top.node.name
         r    == Environment_get(envs, Top.env, name)
     IN  IF r.found
           THEN /\ Go(ValueC(Below, r.value))
                /\ Log(<<[ev |-> "read", name |-> name, value |-> r.value, env |-> Top.env,
                          frame |-> r.frame, call |-> InnermostCall(stack)]>>)
           ELSE /\ Go(RuntimeErrorC(Below, "Undefined variable: '" \o name \o "'"))
                /\ Log(<<[ev |-> "undefined", name |-> name, env |-> Top.env,
                          call |-> InnermostCall(stack)]>>)
  /\ UNCHANGED <<pid, status, heapvars, out>>

-----------------------------------------------------------------------------
(* Index and member access: src/interpreter.py 713-756.                    *)

_exec_IndexAccess ==
  /\ Acting("IndexAccess")
  /\ LET obj == Top.vals[1]
         index == Top.vals[2]
     IN  IF obj.k = "string" \/ (obj.k = "list" /\ index.k # "int")
              \/ (obj.k = "dict" /\ ~Hashable(index))
           THEN Unmodelled
           ELSE /\ Go(IF obj.k = "dict"
                        THEN IF DictHas(dicts[obj.n], index)
                               THEN ValueC(Below, DictGet(dicts[obj.n], index))
                               ELSE RuntimeErrorC(Below, "Key " \o PyRepr(index)
                                                         \o " not found in dict")
                      ELSE IF obj.k = "list"
                        THEN LET len == Len(lists[obj.n])
                                 idx == index.n
                             IN  IF idx < 0 - len \/ idx >= len
                                   THEN RuntimeErrorC(Below, "Index " \o IntToStr(idx)
                                          \o " out of range (length " \o IntToStr(len) \o ")")
                                   ELSE ValueC(Below, lists[obj.n][IF idx < 0 THEN len + idx + 1
                                                                    ELSE idx + 1])
                        ELSE RuntimeErrorC(Below, "Cannot index " \o _type_name(obj)))
                /\ UNCHANGED <<pid, status, heapvars, out, trace>>

\* VoltInstance.get: src/interpreter.py 112-118
VoltInstance_get(stk, obj, name) ==
  IF name \in DOMAIN insts[obj.n].properties
    THEN ValueC(stk, insts[obj.n].properties[name])
  ELSE IF find_method(classes, insts[obj.n].klass, name) # 0
    THEN ValueC(stk, FuncV(find_method(classes, insts[obj.n].klass, name)))
  ELSE RuntimeErrorC(stk, "'" \o classes[insts[obj.n].klass].name
                          \o "' has no property or method '" \o name \o "'")

\* VoltModule.get_property: src/stdlib.py 21-26.  A name held only in
\* methods yields a host callable, which the catalogue never reads.
VoltModule_get_property(stk, obj, name) ==
  IF name \in DOMAIN mods[obj.n].properties
    THEN ValueC(stk, mods[obj.n].properties[name])
    ELSE HostErrorC(stk, "KeyError", "\"Module '" \o mods[obj.n].name
                         \o "' has no property '" \o name \o "'\"")

_exec_DotAccess ==
  /\ Acting("DotAccess")
  /\ LET obj  == Top.vals[1]
         prop == Top.node.property
     IN  IF obj.k = "string" /\ prop = "length"
           THEN Unmodelled
           ELSE /\ Go(CASE obj.k = "instance" -> VoltInstance_get(Below, obj, prop)
                        [] obj.k = "dict" ->
                             IF prop = "size" THEN ValueC(Below, IntV(Len(dicts[obj.n])))
                             ELSE IF DictHas(dicts[obj.n], StrV(prop))
                               THEN ValueC(Below, DictGet(dicts[obj.n], StrV(prop)))
                             ELSE RuntimeErrorC(Below, "Key '" \o prop \o "' not found in dict")
                        [] obj.k = "module" -> VoltModule_get_property(Below, obj, prop)
                        [] obj.k = "class" ->
                             IF find_method(classes, obj.n, prop) # 0
                               THEN ValueC(Below, FuncV(find_method(classes, obj.n, prop)))
                               ELSE RuntimeErrorC(Below, "Class '" \o classes[obj.n].name
                                      \o "' has no method '" \o prop \o "'")
                        [] obj.k = "string" ->
                             RuntimeErrorC(Below, "String has no property '" \o prop
                                      \o "'. Use ." \o prop \o "() for methods")
                        [] obj.k = "list" ->
                             IF prop = "length" THEN ValueC(Below, IntV(Len(lists[obj.n])))
                             ELSE RuntimeErrorC(Below, "List has no property '" \o prop
                                      \o "'. Use ." \o prop \o "() for methods")
                        [] OTHER ->
                             RuntimeErrorC(Below, "Cannot access property '" \o prop
                                      \o "' on " \o _type_name(obj)))
                /\ UNCHANGED <<pid, status, heapvars, out, trace>>

-----------------------------------------------------------------------------
(* Binary operators: src/interpreter.py 768-798.  The outcome of the host  *)
(* operation on the two operand values: a value, a VoltRuntimeError, or a  *)
(* host TypeError.                                                         *)

Scalar(v) == v.k \in {"null", "int", "string"}

BinaryResult(op, l, r) ==
  LET ints == l.k = "int" /\ r.k = "int"
      ok(v)   == [r |-> "value", v |-> v, msg |-> ""]
      err(m)  == [r |-> "VoltRuntimeError", v |-> NullV, msg |-> m]
      type(m) == [r |-> "TypeError", v |-> NullV, msg |-> m]
      none    == [r |-> "unmodelled", v |-> NullV, msg |-> ""]
      mismatch == type("unsupported operand type(s) for " \o op)
      numeric(v) == v.k \in {"int", "float", "boolean"}
  IN  CASE op = "+" ->
             IF l.k = "string" \/ r.k = "string"
               THEN IF StringifyCalls(l) \/ StringifyCalls(r) THEN none
                    ELSE ok(StrV(_to_string(l) \o _to_string(r)))
             ELSE IF ints THEN ok(IntV(l.n + r.n))
             ELSE IF (numeric(l) /\ numeric(r)) \/ (l.k = "list" /\ r.k = "list") THEN none
             ELSE mismatch
        [] op = "-" ->
             IF ints THEN ok(IntV(l.n - r.n))
             ELSE IF numeric(l) /\ numeric(r) THEN none ELSE mismatch
        [] op = "/" ->
             IF numeric(r) /\ r.n = 0 THEN err("Division by zero")
             ELSE IF ints THEN (IF l.n % r.n = 0 /\ r.n > 0 /\ l.n >= 0
                                  THEN ok(FloatV(l.n \div r.n)) ELSE none)
             ELSE IF numeric(l) /\ numeric(r) THEN none ELSE mismatch
        [] op = "%" ->
             IF numeric(r) /\ r.n = 0 THEN err("Modulo by zero")
             ELSE IF ints THEN (IF r.n > 0 /\ l.n >= 0 THEN ok(IntV(l.n % r.n)) ELSE none)
             ELSE IF numeric(l) /\ numeric(r) THEN none ELSE mismatch
        [] op \in {"==", "!="} ->
             IF Scalar(l) /\ Scalar(r)
               THEN ok(BoolV((l = r) <=> (op = "==")))
               ELSE none
        [] op \in {"<", ">", "<=", ">="} ->
             IF ints THEN ok(BoolV(CASE op = "<" -> l.n < r.n [] op = ">" -> l.n > r.n
                                     [] op = "<=" -> l.n <= r.n [] op = ">=" -> l.n >= r.n))
             ELSE IF (numeric(l) /\ numeric(r)) \/ (l.k = r.k /\ l.k \in {"string", "list"})
               THEN none
             ELSE mismatch
        [] OTHER -> none

\* src/interpreter.py 800-804: `-operand`, `not self._is_truthy(operand)`
_exec_UnaryOp ==
  /\ Acting("UnaryOp")
  /\ LET operand == Top.vals[1]
     IN  IF Top.node.op = "-" /\ operand.k \in {"float", "boolean"} THEN Unmodelled
         ELSE /\ Go(IF Top.node.op = "not" THEN ValueC(Below, BoolV(~_is_truthy(operand)))
                    ELSE IF Top.node.op # "-"
                      THEN RuntimeErrorC(Below, "Unknown unary operator: " \o Top.node.op)
                    ELSE IF operand.k = "int" THEN ValueC(Below, IntV(0 - operand.n))
                    ELSE HostErrorC(Below, "TypeError", "bad operand type for unary -"))
              /\ UNCHANGED <<pid, status, heapvars, out, trace>>

\* an operator that always goes on to its right operand
ShortCircuitNever(op, left) == FALSE

\* `and`/`or`: the left operand's value decides the result
ShortCircuit(op, left) == (op = "or") = _is_truthy(left)

_exec_BinaryOp ==
  /\ Acting("BinaryOp")
  /\ IF Top.node.op \in {"and", "or"}
       THEN /\ Go(IF ShortCircuit(Top.node.op, Top.vals[1])
                    THEN ValueC(Below, Top.vals[1])
                    ELSE EvalC(Below, Top.node.right, Top.env))
            /\ UNCHANGED <<pid, status, heapvars, out, trace>>
       ELSE
     LET res == BinaryResult(Top.node.op, Top.vals[1], Top.vals[2])
     IN  IF res.r = "unmodelled" THEN Unmodelled
         ELSE /\ Go(CASE res.r = "value" -> ValueC(Below, res.v)
                      [] res.r = "VoltRuntimeError" -> RuntimeErrorC(Below, res.msg)
                      [] res.r = "TypeError" -> HostErrorC(Below, "TypeError", res.msg))
              /\ UNCHANGED <<pid, status, heapvars, out, trace>>

-----------------------------------------------------------------------------
(* Calls: src/interpreter.py 613-635 and the call boundaries of 811-971,   *)
(* 1325-1336.  A call activation is one frame: it binds the parameters     *)
(* (phase "bind", _bind_params), then runs the body under the handler's    *)
(* `except ReturnSignal` (phase "body").                                   *)

\* dynamic scoping, for comparison: the frame's parent is the caller's frame
CalleeParentDynamic(fn, caller_env) == caller_env

\* the parent of the frame the body runs in
CalleeParent(fn, caller_env) == funcs[fn].closure_env

\* Environment(parent=fn.closure_env), with this/__class__ set for a method
MethodEnv(fn, caller_env, this, klass) ==
  LET e0 == Environment(CalleeParent(fn, caller_env))
  IN  IF this.k = "null" THEN e0
      ELSE [e0 EXCEPT !.variables = MapPut(MapPut(EmptyMap, "this", this), "__class__", klass)]

CallFrame(kind, fn, caller_env, args, inst, site) ==
  [k |-> "call", kind |-> kind, fn |-> fn, func_env |-> Len(envs) + 1,
   caller_env |-> caller_env, args |-> args, inst |-> inst, site |-> site,
   phase |-> "bind", i |-> 1, id |-> nid]

\* the handler on top of stk calls user function fn: frame pushed, fresh
\* environment allocated, about to bind parameters
InvokeLog(stk, kind, fn, caller_env, args, this, klass, inst, site, pre) ==
  /\ envs' = Append(envs, MethodEnv(fn, caller_env, this, klass))
  /\ Go(StepC(Append(stk, CallFrame(kind, fn, caller_env, args, inst, site))))
  /\ Log(pre \o <<[ev |-> "call", id |-> nid, kind |-> kind, fn |-> fn, site |-> site,
                   func_env |-> Len(envs) + 1, caller |-> InnermostCall(stk),
                   args |-> args, this |-> this]>>)

Invoke(stk, kind, fn, caller_env, args, this, klass, inst, site) ==
  InvokeLog(stk, kind, fn, caller_env, args, this, klass, inst, site, <<>>)

\* a variant that evaluates defaults in the callee's frame, for comparison
DefaultEnvCallee(frame) == frame.func_env

\* the environment a default expression is evaluated in
DefaultEnv(frame) == frame.caller_env

_bind_params ==
  /\ Top.k = "call"
  /\ Top.phase = "bind"
  /\ LET f == Top
         params == funcs[f.fn].params
         next == [stack EXCEPT ![Len(stack)].i = f.i + 1]
     IN  \/ /\ mode = "step"
            /\ f.i <= Len(params)
            /\ f.i <= Len(f.args)
            /\ envs' = Environment_set(envs, f.func_env, params[f.i].name, f.args[f.i])
            /\ Go(StepC(next))
            /\ UNCHANGED trace
         \/ /\ mode = "step"
            /\ f.i <= Len(params)
            /\ f.i > Len(f.args)
            /\ params[f.i].default # <<>>
            /\ Go(EvalC(stack, params[f.i].default[1], DefaultEnv(f)))
            /\ Log(<<[ev |-> "default", call |-> f.id, kind |-> f.kind, fn |-> f.fn,
                      param |-> params[f.i].name, env |-> DefaultEnv(f), site |-> f.site,
                      func_env |-> f.func_env,
                      module |-> (Below # <<>> /\ Below[Len(Below)].k = "module_call")]>>)
            /\ UNCHANGED envs
         \/ /\ mode = "value"
            /\ envs' = Environment_set(envs, f.func_env, params[f.i].name, val)
            /\ Go(StepC(next))
            /\ UNCHANGED trace
         \/ /\ mode = "step"
            /\ f.i <= Len(params)
            /\ f.i > Len(f.args)
            /\ params[f.i].default = <<>>
            /\ Go(RuntimeErrorC(Below, "Missing argument '" \o params[f.i].name
                                  \o "' in call to " \o funcs[f.fn].name \o "()"))
            /\ Log(<<[ev |-> "missing_arg", call |-> f.id]>>)
            /\ UNCHANGED envs
  /\ UNCHANGED <<pid, status, funcs, classes, insts, lists, dicts, mods, out>>

\* the parameters are bound: the handler runs the body in func_env
CallBody ==
  /\ mode = "step"
  /\ Top.k = "call"
  /\ Top.phase = "bind"
  /\ Top.i > Len(funcs[Top.fn].params)
  /\ Go(BlockC([stack EXCEPT ![Len(stack)].phase = "body"], funcs[Top.fn].body, Top.func_env))
  /\ Log(<<[ev |-> "body", call |-> Top.id, kind |-> Top.kind, args |-> Top.args,
            params |-> funcs[Top.fn].params, bound |-> envs[Top.func_env].variables]>>)
  /\ UNCHANGED <<pid, status, heapvars, out>>

\* _to_string of an instance whose class chain has toString: 1325-1336
ToStringCall(stk, v, site, pre) ==
  LET fn == find_method(classes, insts[v.n].klass, "toString")
      f  == [CallFrame("_to_string", fn, site, <<>>, v, site) EXCEPT !.phase = "body"]
  IN  /\ envs' = Append(envs, MethodEnv(fn, site, v, ClassV(insts[v.n].klass)))
      /\ Go(BlockC(Append(stk, f), funcs[fn].body, Len(envs) + 1))
      /\ Log(pre \o <<[ev |-> "call", id |-> nid, kind |-> "_to_string", fn |-> fn,
                       site |-> site, func_env |-> Len(envs) + 1,
                       caller |-> InnermostCall(stk)]>>)

\* a variant in which every call yields null, for comparison
YieldNull(f, returned, v) == NullV

\* a variant in which a constructor yields what init returned, for comparison
YieldReturned(f, returned, v) ==
  CASE f.kind = "_to_string" -> IF returned THEN StrV(_to_string(v)) ELSE StrV(Repr(f.inst))
    [] OTHER -> IF returned THEN v ELSE NullV

\* what the call expression yields when the body raised ReturnSignal(v) / ended
Yield(f, returned, v) ==
  CASE f.kind = "_instantiate_class" -> f.inst
    [] f.kind = "_to_string" -> IF returned THEN StrV(_to_string(v)) ELSE StrV(Repr(f.inst))
    [] OTHER -> IF returned THEN v ELSE NullV

\* the call boundary: `except ReturnSignal as ret: return ret.value`, or the
\* body ran to its end
CallReturn ==
  /\ Top.k = "call"
  /\ Top.phase = "body"
  /\ \/ mode = "value"
     \/ mode = "signal" /\ sig.type = "ReturnSignal"
  /\ LET returned == mode = "signal"
         v == IF returned THEN sig.value ELSE NullV
         exit(y) == <<[ev |-> "call_exit", call |-> Top.id, kind |-> Top.kind,
                       returned |-> returned, sigid |-> IF returned THEN sig.id ELSE 0,
                       value |-> y]>>
     IN  IF Top.kind = "_to_string" /\ returned /\ StringifyCalls(v)
           THEN IF HasToString(v)
                  THEN /\ ToStringCall(Below, v, Top.site, exit(v))
                       /\ UNCHANGED <<pid, status, funcs, classes, insts, lists, dicts, mods, out>>
                  ELSE Unmodelled
           ELSE /\ Go(ValueC(Below, Yield(Top, returned, v)))
                /\ Log(exit(Yield(Top, returned, v)))
                /\ UNCHANGED <<pid, status, heapvars, out>>

-----------------------------------------------------------------------------
(* Statements: src/interpreter.py 975-1125, 1197-1199, 1280-1284.          *)

\* _exec_Program / _exec_block: run the statements in order
_exec_block ==
  /\ \/ /\ mode = "eval"
        /\ cur[1].t = "Program"
        /\ Go(BlockC(stack, cur[1].statements, cenv))
     \/ /\ mode = "value"
        /\ Top.k = "block"
        /\ Go(IF Top.pc < Len(Top.stmts)
                THEN EvalC([stack EXCEPT ![Len(stack)].pc = Top.pc + 1],
                           Top.stmts[Top.pc + 1], Top.env)
                ELSE ValueC(Below, val))
  /\ UNCHANGED <<pid, status, heapvars, out, trace>>

\* a variant that always binds in the current frame, for comparison
AssignLocal(es, e, name, value) == Environment_set(es, e, name, value)

\* `if not env.update(name, value): env.set(name, value)`
Assign(es, e, name, value) ==
  IF Environment_update(es, e, name, value).ok
    THEN Environment_update(es, e, name, value).envs
    ELSE Environment_set(es, e, name, value)

_exec_Assignment ==
  /\ Acting("Assignment")
  /\ LET value  == Top.vals[1]
         target == Top.node.target
     IN  IF target.t \notin {"Identifier", "DotAccess", "IndexAccess"}
              \/ (target.t = "IndexAccess" /\ Top.vals[2].k = "list" /\ Top.vals[3].k # "int")
              \/ (target.t = "IndexAccess" /\ Top.vals[2].k = "dict" /\ ~Hashable(Top.vals[3]))
           THEN Unmodelled
         ELSE IF target.t = "IndexAccess"
           THEN LET obj == Top.vals[2]
                    index == Top.vals[3]
                IN  IF obj.k = "list" /\ ListIndex(Len(lists[obj.n]), index.n) # 0
                      THEN /\ lists' = [lists EXCEPT ![obj.n][ListIndex(Len(lists[obj.n]), index.n)] = value]
                           /\ Go(ValueC(Below, value))
                           /\ UNCHANGED <<pid, status, envs, funcs, classes, insts, dicts, mods,
                                          out, trace>>
                    ELSE IF obj.k = "dict"
                      THEN /\ dicts' = [dicts EXCEPT ![obj.n] = DictPut(@, index, value)]
                           /\ Go(ValueC(Below, value))
                           /\ UNCHANGED <<pid, status, envs, funcs, classes, insts, lists, mods,
                                          out, trace>>
                    ELSE /\ Go(RuntimeErrorC(Below,
                                 IF obj.k = "list"
                                   THEN "Index " \o IntToStr(index.n) \o " out of range"
                                   ELSE "Cannot index-assign on " \o _type_name(obj)))
                         /\ UNCHANGED <<pid, status, heapvars, out, trace>>
         ELSE IF target.t = "Identifier"
           THEN /\ envs' = Assign(envs, Top.env, target.name, value)
                /\ Go(ValueC(Below, value))
                /\ Log(<<[ev |-> "assign", name |-> target.name, value |-> value,
                          env |-> Top.env,
                          frame |-> Environment_get(envs, Top.env, target.name).frame]>>)
                /\ UNCHANGED <<pid, status, funcs, classes, insts, lists, dicts, mods, out>>
         ELSE IF Top.vals[2].k = "instance"
           THEN /\ insts' = [insts EXCEPT ![Top.vals[2].n].properties =
                               MapPut(@, target.property, value)]
                /\ Go(ValueC(Below, value))
                /\ UNCHANGED <<pid, status, envs, funcs, classes, lists, dicts, mods, out, trace>>
         ELSE IF Top.vals[2].k = "dict"
           THEN /\ dicts' = [dicts EXCEPT ![Top.vals[2].n] = DictPut(@, StrV(target.property), value)]
                /\ Go(ValueC(Below, value))
                /\ UNCHANGED <<pid, status, envs, funcs, classes, insts, lists, mods, out, trace>>
         ELSE   /\ Go(RuntimeErrorC(Below, "Cannot set property on " \o _type_name(Top.vals[2])))
                /\ UNCHANGED <<pid, status, heapvars, out, trace>>

\* a variant that binds every name to the first element
DestructureFirst(es, e, names, value) ==
  [es EXCEPT ![e].variables =
     [x \in DOMAIN @ \cup {names[i] : i \in 1..Len(names)} |->
        IF \E i \in 1..Len(names) : names[i] = x THEN value[1] ELSE @[x]]]

\* `for i, name in enumerate(node.names): env.set(name, value[i])`
RECURSIVE Destructure(_, _, _, _)
Destructure(es, e, names, value) ==
  IF names = <<>> THEN es
  ELSE Environment_set(Destructure(es, e, SubSeq(names, 1, Len(names) - 1), value),
                       e, names[Len(names)], value[Len(names)])

_exec_DestructureList ==
  /\ Acting("DestructureList")
  /\ LET value == Top.vals[1]
         names == Top.node.names
     IN  IF value.k # "list"
           THEN /\ Go(RuntimeErrorC(Below, "Cannot destructure non-list into list pattern"))
                /\ UNCHANGED envs
         ELSE IF Len(names) > Len(lists[value.n])
           THEN /\ Go(RuntimeErrorC(Below, "Not enough values to destructure: expected "
                                     \o IntToStr(Len(names)) \o ", got "
                                     \o IntToStr(Len(lists[value.n]))))
                /\ UNCHANGED envs
         ELSE   /\ envs' = Destructure(envs, Top.env, names, lists[value.n])
                /\ Go(ValueC(Below, NullV))
  /\ UNCHANGED <<pid, status, funcs, classes, insts, lists, dicts, mods, out, trace>>

\* the string keys of a dict with their values, as a map from names
DictNames(d) ==
  [x \in {d[i].key.s : i \in {j \in 1..Len(d) : d[j].key.k = "string"}} |->
     DictGet(d, StrV(x))]

\* `for name in node.names:` binding each name found in props, up to the
\* first one that is missing
RECURSIVE DestructureNamed(_, _, _, _)
DestructureNamed(es, e, names, props) ==
  IF names = <<>> THEN [envs |-> es, ok |-> TRUE, name |-> ""]
  ELSE IF names[1] \notin DOMAIN props THEN [envs |-> es, ok |-> FALSE, name |-> names[1]]
  ELSE DestructureNamed(Environment_set(es, e, names[1], props[names[1]]),
                        e, Tail(names), props)

_exec_DestructureDict ==
  /\ Acting("DestructureDict")
  /\ LET value == Top.vals[1]
         names == Top.node.names
     IN  IF value.k = "instance"
           THEN LET r == DestructureNamed(envs, Top.env, names, insts[value.n].properties)
                IN  /\ envs' = r.envs
                    /\ IF r.ok THEN Go(ValueC(Below, NullV))
                       ELSE Go(RuntimeErrorC(Below, "Property '" \o r.name
                                                    \o "' not found on instance"))
         ELSE IF value.k = "dict"
           THEN LET r == DestructureNamed(envs, Top.env, names, DictNames(dicts[value.n]))
                IN  /\ envs' = r.envs
                    /\ IF r.ok THEN Go(ValueC(Below, NullV))
                       ELSE Go(RuntimeErrorC(Below, "Key '" \o r.name
                                                    \o "' not found in dict"))
         ELSE   /\ Go(RuntimeErrorC(Below, "Cannot destructure non-dict into dict pattern"))
                /\ UNCHANGED envs
  /\ UNCHANGED <<pid, status, funcs, classes, insts, lists, dicts, mods, out, trace>>

_exec_PushStatement ==
  /\ Acting("PushStatement")
  /\ IF Top.vals[1].k # "list"
       THEN /\ Go(RuntimeErrorC(Below, "push requires a list"))
            /\ UNCHANGED lists
       ELSE /\ lists' = [lists EXCEPT ![Top.vals[1].n] = Append(@, Top.vals[2])]
            /\ Go(ValueC(Below, NullV))
  /\ UNCHANGED <<pid, status, envs, funcs, classes, insts, dicts, mods, out, trace>>

_exec_PopStatement ==
  /\ Acting("PopStatement")
  /\ IF Top.vals[1].k # "list"
       THEN /\ Go(RuntimeErrorC(Below, "pop requires a list"))
            /\ UNCHANGED lists
     ELSE IF lists[Top.vals[1].n] = <<>>
       THEN /\ Go(RuntimeErrorC(Below, "Cannot pop from empty list"))
            /\ UNCHANGED lists
       ELSE /\ lists' = [lists EXCEPT ![Top.vals[1].n] = SubSeq(@, 1, Len(@) - 1)]
            /\ Go(ValueC(Below, lists[Top.vals[1].n][Len(lists[Top.vals[1].n])]))
  /\ UNCHANGED <<pid, status, envs, funcs, classes, insts, dicts, mods, out, trace>>

_exec_ShowStatement ==
  \/ /\ Acting("ShowStatement")
     /\ LET value == Top.vals[1]
            stk == Append(Below, [k |-> "show"])
        IN  IF StringifyCalls(value) /\ ~HasToString(value) THEN Unmodelled
            ELSE IF HasToString(value)
              THEN /\ ToStringCall(stk, value, Top.env, <<>>)
                   /\ UNCHANGED <<pid, status, funcs, classes, insts, lists, dicts, mods, out>>
              ELSE /\ Go(ValueC(stk, StrV(_to_string(value))))
                   /\ UNCHANGED <<pid, status, heapvars, out, trace>>
  \/ /\ mode = "value"
     /\ Top.k = "show"
     /\ out' = Append(out, val.s)
     /\ Go(ValueC(Below, NullV))
     /\ UNCHANGED <<pid, status, heapvars, trace>>

_exec_IfStatement ==
  /\ Acting("IfStatement")
  /\ Go(IF _is_truthy(Top.vals[1]) THEN BlockC(Below, Top.node.body, Top.env)
        ELSE BlockC(Below, Top.node.else_body, Top.env))
  /\ UNCHANGED <<pid, status, heapvars, out, trace>>

\* a loop activation: `try: result = self._exec_block(node.body, env)
\*                      except BreakSignal: break   except ContinueSignal: continue`
LoopFrame(nd, e, phase, left) ==
  [k |-> "loop", node |-> nd, env |-> e, phase |-> phase, left |-> left,
   result |-> NullV, id |-> nid]

_exec_WhileStatement ==
  /\ \/ /\ mode = "eval"
        /\ cur[1].t = "WhileStatement"
        /\ Go(EvalC(Append(stack, LoopFrame(cur[1], cenv, "cond", 0)), cur[1].condition, cenv))
     \/ /\ mode = "value"
        /\ Top.k = "loop"
        /\ Top.phase = "cond"
        /\ Go(IF _is_truthy(val)
                THEN BlockC([stack EXCEPT ![Len(stack)].phase = "body"], Top.node.body, Top.env)
                ELSE ValueC(Below, Top.result))
     \/ /\ Top.k = "loop"
        /\ Top.node.t = "WhileStatement"
        /\ Top.phase = "body"
        /\ \/ mode = "value"
           \/ mode = "signal" /\ sig.type = "ContinueSignal"
        /\ Go(EvalC([stack EXCEPT ![Len(stack)].phase = "cond",
                                  ![Len(stack)].result = IF mode = "value" THEN val ELSE @],
                    Top.node.condition, Top.env))
     \/ /\ Top.k = "loop"
        /\ Top.node.t = "WhileStatement"
        /\ Top.phase = "body"
        /\ mode = "signal" /\ sig.type = "BreakSignal"
        /\ Go(ValueC(Below, Top.result))
  /\ UNCHANGED <<pid, status, heapvars, out, trace>>

\* one more pass of `for _ in range(int(count))`, or the loop's end
TimesNext(stk, f) ==
  IF f.left > 0
    THEN BlockC(Append(stk, [f EXCEPT !.left = f.left - 1]), f.node.body, f.env)
    ELSE ValueC(stk, f.result)

\* the Python iterator of `for ... in iterable`: the next position, and for
\* a dict its size and keys when the iterator was made
ForInFrame(nd, e, iterable) ==
  [k |-> "loop", node |-> nd, env |-> e, phase |-> "body", result |-> NullV, id |-> nid,
   iterable |-> iterable, i |-> 1,
   used |-> IF iterable.k = "dict" THEN Len(dicts[iterable.n]) ELSE 0,
   keys |-> IF iterable.k = "dict" THEN [j \in 1..Len(dicts[iterable.n]) |->
                                          dicts[iterable.n][j].key] ELSE <<>>]

\* env.set of the loop variable(s) for the element at position f.i
ForInBind(f) ==
  LET nd == f.node
      key == IF f.iterable.k = "dict" THEN dicts[f.iterable.n][f.i].key ELSE IntV(f.i - 1)
      item == IF f.iterable.k = "dict" THEN dicts[f.iterable.n][f.i].value
              ELSE lists[f.iterable.n][f.i]
  IN  IF nd.variable2 # ""
        THEN Environment_set(Environment_set(envs, f.env, nd.variable, key),
                             f.env, nd.variable2, item)
      ELSE Environment_set(envs, f.env, nd.variable,
                           IF f.iterable.k = "dict" THEN key ELSE item)

_exec_ForInStatement ==
  \/ /\ Acting("ForInStatement")
     /\ IF Top.vals[1].k = "string" THEN Unmodelled
        ELSE /\ Go(IF Top.vals[1].k \in {"list", "dict"}
                     THEN StepC(Append(Below, ForInFrame(Top.node, Top.env, Top.vals[1])))
                     ELSE RuntimeErrorC(Below, "Cannot iterate over " \o _type_name(Top.vals[1])))
             /\ UNCHANGED <<pid, status, heapvars, out, trace>>
  \/ /\ Top.k = "loop"
     /\ Top.node.t = "ForInStatement"
     /\ mode = "step"
     /\ LET f == Top
            d == dicts[f.iterable.n]
            size == IF f.iterable.k = "dict" THEN Len(d) ELSE Len(lists[f.iterable.n])
        IN  IF f.iterable.k = "dict" /\ Len(d) # f.used
              THEN /\ Go(HostErrorC(Below, "RuntimeError",
                                    "dictionary changed size during iteration"))
                   /\ UNCHANGED <<pid, status, heapvars, out, trace>>
            ELSE IF f.iterable.k = "dict" /\ [j \in 1..Len(d) |-> d[j].key] # f.keys
              THEN Unmodelled
            ELSE IF f.i <= size
              THEN /\ envs' = ForInBind(f)
                   /\ Go(BlockC([stack EXCEPT ![Len(stack)].i = f.i + 1], f.node.body, f.env))
                   /\ UNCHANGED <<pid, status, funcs, classes, insts, lists, dicts, mods, out,
                                  trace>>
            ELSE /\ Go(ValueC(Below, f.result))
                 /\ UNCHANGED <<pid, status, heapvars, out, trace>>
  \/ /\ Top.k = "loop"
     /\ Top.node.t = "ForInStatement"
     /\ \/ mode = "value" /\ Go(StepC([stack EXCEPT ![Len(stack)].result = val]))
        \/ mode = "signal" /\ sig.type = "ContinueSignal" /\ Go(StepC(stack))
        \/ mode = "signal" /\ sig.type = "BreakSignal" /\ Go(ValueC(Below, Top.result))
     /\ UNCHANGED <<pid, status, heapvars, out, trace>>

_exec_LoopTimesStatement ==
  \/ /\ Acting("LoopTimesStatement")
     /\ LET count == Top.vals[1]
        IN  IF count.k \in {"float", "boolean"} THEN Unmodelled
            ELSE /\ Go(IF count.k # "int"
                         THEN RuntimeErrorC(Below, "Loop count must be a number")
                         ELSE TimesNext(Below, LoopFrame(Top.node, Top.env, "body", count.n)))
                 /\ UNCHANGED <<pid, status, heapvars, out, trace>>
  \/ /\ Top.k = "loop"
     /\ Top.node.t = "LoopTimesStatement"
     /\ \/ mode = "value" /\ Go(TimesNext(Below, [Top EXCEPT !.result = val]))
        \/ mode = "signal" /\ sig.type = "ContinueSignal" /\ Go(TimesNext(Below, Top))
        \/ mode = "signal" /\ sig.type = "BreakSignal" /\ Go(ValueC(Below, Top.result))
     /\ UNCHANGED <<pid, status, heapvars, out, trace>>

VoltFunction(name, params, body, closure_env) ==
  [name |-> name, params |-> params, body |-> body, closure_env |-> closure_env]

\* capture by value, for comparison: the closure is a copy of the frame
CaptureCopy(es, e) == [envs |-> Append(es, es[e]), closure_env |-> Len(es) + 1]

\* the environment a new function value captures
Capture(es, e) == [envs |-> es, closure_env |-> e]

_exec_FuncDeclaration ==
  /\ mode = "eval"
  /\ cur[1].t = "FuncDeclaration"
  /\ LET c == Capture(envs, cenv)
     IN  /\ funcs' = Append(funcs, VoltFunction(cur[1].name, cur[1].params, cur[1].body,
                                                c.closure_env))
         /\ envs' = Environment_set(c.envs, cenv, cur[1].name, FuncV(Len(funcs) + 1))
  /\ Go(ValueC(stack, FuncV(Len(funcs) + 1)))
  /\ Log(<<[ev |-> "func", fn |-> Len(funcs) + 1, env |-> cenv]>>)
  /\ UNCHANGED <<pid, status, classes, insts, lists, dicts, mods, out>>

_exec_LambdaExpression ==
  /\ mode = "eval"
  /\ cur[1].t = "LambdaExpression"
  /\ LET c == Capture(envs, cenv)
     IN  /\ funcs' = Append(funcs, VoltFunction("<lambda>", cur[1].params,
                                                <<ReturnStatement(<<cur[1].body>>)>>,
                                                c.closure_env))
         /\ envs' = c.envs
  /\ Go(ValueC(stack, FuncV(Len(funcs) + 1)))
  /\ Log(<<[ev |-> "func", fn |-> Len(funcs) + 1, env |-> cenv]>>)
  /\ UNCHANGED <<pid, status, classes, insts, lists, dicts, mods, out>>

\* the try activation with a catch clause whose body is running (0: none)
RECURSIVE InnermostTryCatch(_)
InnermostTryCatch(stk) ==
  IF stk = <<>> THEN 0
  ELSE LET f == stk[Len(stk)]
       IN  IF f.k = "try" /\ f.phase = "body" /\ f.node.catch_var # "" /\ f.node.catch_body # <<>>
             THEN f.id
             ELSE InnermostTryCatch(SubSeq(stk, 1, Len(stk) - 1))

_exec_ReturnStatement ==
  /\ Acting("ReturnStatement")
  /\ LET value == IF Top.vals = <<>> THEN NullV ELSE Top.vals[1]
     IN  /\ Go(RaiseC(Below, "ReturnSignal", value, "", ""))
         /\ Log(<<[ev |-> "return", id |-> nid, value |-> value,
                   call |-> InnermostCall(stack)]>>)
  /\ UNCHANGED <<pid, status, heapvars, out>>

_exec_BreakStatement ==
  /\ mode = "eval"
  /\ cur[1].t = "BreakStatement"
  /\ Go(RaiseC(stack, "BreakSignal", NullV, "", ""))
  /\ UNCHANGED <<pid, status, heapvars, out, trace>>

_exec_ContinueStatement ==
  /\ mode = "eval"
  /\ cur[1].t = "ContinueStatement"
  /\ Go(RaiseC(stack, "ContinueSignal", NullV, "", ""))
  /\ UNCHANGED <<pid, status, heapvars, out, trace>>

_exec_ThrowStatement ==
  /\ Acting("ThrowStatement")
  /\ Go(RaiseC(Below, "VoltThrowError", Top.vals[1], "", ""))
  /\ Log(<<[ev |-> "throw", id |-> nid, value |-> Top.vals[1],
            target |-> InnermostTryCatch(stack)]>>)
  /\ UNCHANGED <<pid, status, heapvars, out>>

-----------------------------------------------------------------------------
(* Try / catch / finally: src/interpreter.py 1175-1195.  The activation    *)
(* is in the try body, in an except clause's catch body, or in the         *)
(* finally clause; `pend` is the exception Python re-raises when the       *)
(* finally clause ends (NoSig: none, the handler returns `result`).        *)

TryFrame(nd, e) ==
  [k |-> "try", node |-> nd, env |-> e, phase |-> "body", result |-> NullV,
   pend |-> NoSig, id |-> nid, caught |-> NoSig]

\* `if node.catch_var and node.catch_body`
HasCatch(nd) == nd.catch_var # "" /\ nd.catch_body # <<>>
\* `if node.finally_body`
HasFinally(nd) == nd.finally_body # <<>>

\* the value bound to the catch variable: e.value, resp. str(e)
CatchBinding(s) == IF s.type = "VoltThrowError" THEN s.value ELSE StrV(s.text)

\* a variant whose catch frame is detached from the enclosing frame
CatchFrameDetached(parent, name, value) ==
  [Environment(0) EXCEPT !.variables = MapPut(EmptyMap, name, value)]

\* `catch_env = Environment(parent=env); catch_env.set(node.catch_var, ...)`
CatchFrame(parent, name, value) ==
  [Environment(parent) EXCEPT !.variables = MapPut(EmptyMap, name, value)]

\* a variant with a bare `except:` clause, for comparison
CatchesAnything(s) == TRUE

\* the except clauses of the handler: exception classes it catches
Catches(s) == s.type \in {"VoltThrowError", "VoltRuntimeError"}

TryExit(f, leaving, fin) ==
  [ev |-> "try_exit", id |-> f.id, has_catch |-> HasCatch(f.node),
   has_finally |-> HasFinally(f.node), pend |-> f.pend,
   caught |-> f.caught, fin_end |-> fin, leaving |-> leaving, result |-> f.result]

\* the try statement is left: with the pending exception, or returning result
LeaveTry(stk, f, fin) ==
  [c  |-> IF f.pend.type = "none" THEN ValueC(stk, f.result) ELSE SignalC(stk, f.pend),
   ev |-> <<TryExit(f, f.pend, fin)>>]

\* a variant that leaves at once when a return is pending, for comparison
RunFinallyUnlessReturning(stk, f) ==
  IF HasFinally(f.node) /\ f.pend.type # "ReturnSignal"
    THEN [c  |-> BlockC(Append(stk, [f EXCEPT !.phase = "finally"]), f.node.finally_body, f.env),
          ev |-> <<[ev |-> "finally", id |-> f.id]>>]
    ELSE LeaveTry(stk, f, "none")

\* the `finally:` clause, entered however the try/except part ended
RunFinally(stk, f) ==
  IF HasFinally(f.node)
    THEN [c  |-> BlockC(Append(stk, [f EXCEPT !.phase = "finally"]), f.node.finally_body, f.env),
          ev |-> <<[ev |-> "finally", id |-> f.id]>>]
    ELSE LeaveTry(stk, f, "none")

_exec_TryCatchStatement ==
  \/ /\ mode = "eval"
     /\ cur[1].t = "TryCatchStatement"
     /\ Go(BlockC(Append(stack, TryFrame(cur[1], cenv)), cur[1].try_body, cenv))
     /\ Log(<<[ev |-> "try", id |-> nid]>>)
     /\ UNCHANGED <<pid, status, heapvars, out>>
  \/ \* the try body returned
     /\ mode = "value"
     /\ Top.k = "try" /\ Top.phase = "body"
     /\ LET r == RunFinally(Below, [Top EXCEPT !.result = val])
        IN  Go(r.c) /\ Log(r.ev)
     /\ UNCHANGED <<pid, status, heapvars, out>>
  \/ \* except VoltThrowError / except VoltRuntimeError, with a catch clause
     /\ mode = "signal"
     /\ Top.k = "try" /\ Top.phase = "body"
     /\ Catches(sig)
     /\ HasCatch(Top.node)
     /\ envs' = Append(envs, CatchFrame(Top.env, Top.node.catch_var, CatchBinding(sig)))
     /\ Go(BlockC(Append(Below, [Top EXCEPT !.phase = "catch", !.caught = sig]),
                  Top.node.catch_body, Len(envs) + 1))
     /\ Log(<<[ev |-> "catch", id |-> Top.id, sig |-> sig, bound |-> CatchBinding(sig),
               catch_env |-> Len(envs) + 1]>>)
     /\ UNCHANGED <<pid, status, funcs, classes, insts, lists, dicts, mods, out>>
  \/ \* except VoltThrowError / except VoltRuntimeError, without one
     /\ mode = "signal"
     /\ Top.k = "try" /\ Top.phase = "body"
     /\ Catches(sig)
     /\ ~HasCatch(Top.node)
     /\ LET r == RunFinally(Below, [Top EXCEPT !.caught = sig])
        IN  Go(r.c) /\ Log(<<[ev |-> "swallow", id |-> Top.id, sig |-> sig]>> \o r.ev)
     /\ UNCHANGED <<pid, status, heapvars, out>>
  \/ \* any other exception leaves the try body: finally, then it goes on
     /\ mode = "signal"
     /\ Top.k = "try" /\ Top.phase = "body"
     /\ ~Catches(sig)
     /\ LET r == RunFinally(Below, [Top EXCEPT !.pend = sig])
        IN  Go(r.c) /\ Log(<<[ev |-> "pass", id |-> Top.id, sig |-> sig]>> \o r.ev)
     /\ UNCHANGED <<pid, status, heapvars, out>>
  \/ \* the catch body returned
     /\ mode = "value"
     /\ Top.k = "try" /\ Top.phase = "catch"
     /\ LET r == RunFinally(Below, [Top EXCEPT !.result = val])
        IN  Go(r.c) /\ Log(r.ev)
     /\ UNCHANGED <<pid, status, heapvars, out>>
  \/ \* an exception raised inside an except clause
     /\ mode = "signal"
     /\ Top.k = "try" /\ Top.phase = "catch"
     /\ LET r == RunFinally(Below, [Top EXCEPT !.pend = sig])
        IN  Go(r.c) /\ Log(<<[ev |-> "pass", id |-> Top.id, sig |-> sig]>> \o r.ev)
     /\ UNCHANGED <<pid, status, heapvars, out>>
  \/ \* the finally clause ended
     /\ mode = "value"
     /\ Top.k = "try" /\ Top.phase = "finally"
     /\ LET r == LeaveTry(Below, Top, "normal")
        IN  Go(r.c) /\ Log(r.ev)
     /\ UNCHANGED <<pid, status, heapvars, out>>
  \/ \* an exception raised inside the finally clause replaces the pending one
     /\ mode = "signal"
     /\ Top.k = "try" /\ Top.phase = "finally"
     /\ Go(SignalC(Below, sig))
     /\ Log(<<TryExit(Top, sig, "abrupt")>>)
     /\ UNCHANGED <<pid, status, heapvars, out>>

-----------------------------------------------------------------------------
(* Call forms: src/interpreter.py 811-971, and the list methods taking a   *)
(* function, 474-505.                                                      *)

\* the interpreter's built-in function names: _setup_builtins, 137-166
Builtins ==
  {"len", "str", "int", "float", "type", "range", "abs", "min", "max", "round", "upper",
   "lower", "split", "join", "contains", "reverse", "sort", "keys", "values", "print",
   "input", "number", "string", "bool", "isinstance", "char", "ord"}

\* a handler step that calls nothing
Plain(c) == Go(c) /\ UNCHANGED <<envs, trace>>

\* _call_volt_function(fn, args, env), called by the handler on top of stk
_call_volt_function(stk, fn, args, env, site) ==
  IF fn.k = "function"
    THEN Invoke(stk, "_call_volt_function", fn.n, env, args, NullV, NullV, NullV, site)
    ELSE Plain(RuntimeErrorC(stk, "Not a callable function"))

\* VoltInstance.__init__: src/interpreter.py 108-110
VoltInstance(klass) == [klass |-> klass, properties |-> EmptyMap]

\* _instantiate_class(klass, args, env)
_instantiate_class(stk, klass, args, env) ==
  LET instance == InstV(Len(insts) + 1)
      init_method == find_method(classes, klass, "init")
      made(c) == [ev |-> "instantiate", id |-> nid, klass |-> klass, inst |-> instance,
                  init |-> init_method, args |-> args, node |-> Top.node.t,
                  properties |-> insts'[instance.n].properties,
                  mode |-> c.mode, val |-> c.val, text |-> c.sig.text]
      fail == RuntimeErrorC(stk, "Class '" \o classes[klass].name
                                  \o "' constructor takes no arguments")
  IN  /\ insts' = Append(insts, VoltInstance(klass))
      /\ IF init_method # 0
           THEN InvokeLog(stk, "_instantiate_class", init_method, env, args, instance,
                          ClassV(klass), instance, env, <<made(StepC(stk))>>)
         ELSE IF args # <<>>
           THEN Go(fail) /\ Log(<<made(fail)>>) /\ UNCHANGED envs
         ELSE Go(ValueC(stk, instance)) /\ Log(<<made(ValueC(stk, instance))>>)
              /\ UNCHANGED envs

\* _call_instance_method(instance, method_name, args, env)
_call_instance_method(stk, instance, method_name, args, env) ==
  LET props == insts[instance.n].properties
      method_fn == find_method(classes, insts[instance.n].klass, method_name)
  IN  IF method_name \in DOMAIN props
        THEN IF props[method_name].k = "function"
               THEN _call_volt_function(stk, props[method_name], args, env, env)
               ELSE Plain(RuntimeErrorC(stk, "'" \o method_name \o "' is not a method"))
      ELSE IF method_fn = 0
        THEN Plain(RuntimeErrorC(stk, "'" \o classes[insts[instance.n].klass].name
                                   \o "' has no method '" \o method_name \o "'"))
      ELSE Invoke(stk, "_call_instance_method", method_fn, env, args, instance,
                  ClassV(insts[instance.n].klass), NullV, env)

\* the built-ins whose bodies are covered here
CoveredBuiltins == {"len", "type"}

\* self.builtins[name](args): _bi_len 170-174, _bi_type 191-193
BuiltinCall(name, args) ==
  IF Len(args) # 1
    THEN [ok |-> FALSE, value |-> NullV, text |-> name \o "() takes 1 argument"]
  ELSE IF name = "type"
    THEN [ok |-> TRUE, value |-> StrV(_type_name(args[1])), text |-> ""]
  ELSE IF args[1].k = "list"
    THEN [ok |-> TRUE, value |-> IntV(Len(lists[args[1].n])), text |-> ""]
  ELSE IF args[1].k = "dict"
    THEN [ok |-> TRUE, value |-> IntV(Len(dicts[args[1].n])), text |-> ""]
  ELSE IF args[1].k = "string"
    THEN [ok |-> TRUE, value |-> IntV(Len(args[1].s)), text |-> ""]
  ELSE [ok |-> FALSE, value |-> NullV,
        text |-> "len() not supported for " \o _type_name(args[1])]

\* a variant that lets a binding of the name take over from the built-in
IsBuiltinUnlessBound(name, r) == name \in Builtins /\ ~r.found

\* `if node.name in self.builtins`, tested before `env.get(node.name)`
IsBuiltin(name, r) == name \in Builtins

_exec_FunctionCall ==
  /\ Acting("FunctionCall")
  /\ LET name == Top.node.name
         r == Environment_get(envs, Top.env, name)
     IN  IF IsBuiltin(name, r)
           THEN IF name \notin CoveredBuiltins THEN Unmodelled
                ELSE /\ Plain(IF BuiltinCall(name, Top.vals).ok
                                THEN ValueC(Below, BuiltinCall(name, Top.vals).value)
                                ELSE RuntimeErrorC(Below, BuiltinCall(name, Top.vals).text))
                     /\ UNCHANGED <<pid, status, funcs, classes, insts, lists, dicts, mods, out>>
         ELSE /\ IF ~r.found
                   THEN Plain(RuntimeErrorC(Below, "Undefined variable: '" \o name \o "'"))
                      /\ UNCHANGED insts
                 ELSE IF r.value.k = "class"
                   THEN _instantiate_class(Below, r.value.n, Top.vals, Top.env)
                 ELSE IF r.value.k = "function"
                   THEN Invoke(Below, "_exec_FunctionCall", r.value.n, Top.env, Top.vals,
                               NullV, NullV, NullV, Top.env)
                      /\ UNCHANGED insts
                 ELSE Plain(RuntimeErrorC(Below, "'" \o name \o "' is not a function"))
                      /\ UNCHANGED insts
              /\ UNCHANGED <<pid, status, funcs, classes, lists, dicts, mods, out>>

_exec_CallExpression ==
  /\ Acting("CallExpression")
  /\ LET callee == Top.vals[1]
         args == Tail(Top.vals)
     IN  IF callee.k = "function"
           THEN _call_volt_function(Below, callee, args, Top.env, Top.env) /\ UNCHANGED insts
         ELSE IF callee.k = "class"
           THEN _instantiate_class(Below, callee.n, args, Top.env)
         ELSE Plain(RuntimeErrorC(Below, "Expression is not callable")) /\ UNCHANGED insts
  /\ UNCHANGED <<pid, status, funcs, classes, lists, dicts, mods, out>>

\* VoltModule.call_method under `except (KeyError, RuntimeError)`: 855-860;
\* the callable is the wrapper built by _exec_UseStatement, 1269
VoltModule_call_method(stk, m, name, args, site) ==
  IF name \in DOMAIN mods[m].methods
    THEN _call_volt_function(Append(stk, [k |-> "module_call"]), FuncV(mods[m].methods[name]),
                             args, mods[m].env, site)
    ELSE Plain(RuntimeErrorC(stk, "\"Module '" \o mods[m].name \o "' has no method '"
                                   \o name \o "'\""))

ListMethods == {"forEach", "map"}
ListMutators == {"push", "append", "pop", "shift", "unshift", "insert", "remove", "fill", "clear"}
DictMutators == {"remove", "delete", "clear"}

\* a method that returns the list and leaves no effect in it
ListMutationDetached(a, method, args) ==
  [r |-> "value", lst |-> lists[a], v |-> ListV(a), msg |-> ""]

\* the Python list of lst.insert(idx, v)
InsertAt(lst, idx, v) ==
  LET at == IF idx < 0 THEN (IF Len(lst) + idx < 0 THEN 0 ELSE Len(lst) + idx)
            ELSE IF idx > Len(lst) THEN Len(lst) ELSE idx
  IN  SubSeq(lst, 1, at) \o <<v>> \o SubSeq(lst, at + 1, Len(lst))

\* the Python list of lst.remove(v), v in lst
RemoveFirst(lst, v) ==
  LET at == CHOOSE i \in 1..Len(lst) : lst[i] = v /\ \A j \in 1..(i - 1) : lst[j] # v
  IN  SubSeq(lst, 1, at - 1) \o SubSeq(lst, at + 1, Len(lst))

\* the in-place methods of _call_list_method on the list at address a: the
\* list afterwards and the value returned, or the error raised
ListMutation(a, method, args) ==
  LET lst == lists[a]
      ok(l, v)   == [r |-> "value", lst |-> l, v |-> v, msg |-> ""]
      err(m)     == [r |-> "VoltRuntimeError", lst |-> lst, v |-> NullV, msg |-> m]
      host(c, m) == [r |-> c, lst |-> lst, v |-> NullV, msg |-> m]
      none       == [r |-> "none", lst |-> lst, v |-> NullV, msg |-> ""]
  IN  CASE method \in {"push", "append"} ->
             IF args = <<>> THEN err(method \o "() needs 1 argument")
             ELSE ok(Append(lst, args[1]), ListV(a))
        [] method = "pop" ->
             IF lst = <<>> THEN err("Cannot pop from empty list")
             ELSE IF args # <<>> THEN none
             ELSE ok(SubSeq(lst, 1, Len(lst) - 1), lst[Len(lst)])
        [] method = "shift" ->
             IF lst = <<>> THEN err("Cannot shift from empty list") ELSE ok(Tail(lst), Head(lst))
        [] method = "unshift" ->
             IF args = <<>> THEN err("unshift() needs 1 argument")
             ELSE ok(<<args[1]>> \o lst, ListV(a))
        [] method = "insert" ->
             IF Len(args) < 2 THEN err("insert() needs 2 arguments")
             ELSE IF args[1].k # "int" THEN none
             ELSE ok(InsertAt(lst, args[1].n, args[2]), ListV(a))
        [] method = "remove" ->
             IF args = <<>> THEN err("remove() needs 1 argument")
             ELSE IF args[1].k \notin {"null", "int", "string"}
                     \/ \E i \in 1..Len(lst) : lst[i].k \in {"boolean", "float"} THEN none
             ELSE IF \A i \in 1..Len(lst) : lst[i] # args[1]
               THEN host("ValueError", "list.remove(x): x not in list")
             ELSE ok(RemoveFirst(lst, args[1]), ListV(a))
        [] method = "fill" ->
             IF args = <<>> THEN err("fill() needs 1 argument")
             ELSE IF Len(args) > 1 THEN none
             ELSE ok([i \in 1..Len(lst) |-> args[1]], ListV(a))
        [] method = "clear" -> ok(<<>>, ListV(a))

_exec_MethodCall ==
  /\ Acting("MethodCall")
  /\ ~(Top.vals[1].k = "list" /\ Top.node.method \in ListMutators)
  /\ ~(Top.vals[1].k = "dict" /\ Top.node.method \in DictMutators)
  /\ LET obj == Top.vals[1]
         method == Top.node.method
         args == Tail(Top.vals)
     IN  IF obj.k \in {"string", "int", "float", "boolean"}
              \/ (obj.k = "dict" /\ method \notin DictMutators)
              \/ (obj.k = "list" /\ method \notin ListMethods \cup ListMutators)
           THEN Unmodelled
           ELSE /\ CASE obj.k = "instance" ->
                          _call_instance_method(Below, obj, method, args, Top.env)
                     [] obj.k = "module" ->
                          VoltModule_call_method(Below, obj.n, method, args, Top.env)
                     [] obj.k = "list" ->
                          IF args = <<>>
                            THEN Plain(RuntimeErrorC(Below, method \o "() needs a function argument"))
                            ELSE Plain(StepC(Append(Below,
                                   [k |-> "list_method", method |-> method, lst |-> obj.n,
                                    fn |-> args[1], env |-> Top.env, i |-> 1, acc |-> <<>>])))
                     [] OTHER ->
                          Plain(RuntimeErrorC(Below, "Cannot call method '" \o method \o "' on "
                                                \o _type_name(obj)))
                /\ UNCHANGED <<pid, status, funcs, classes, insts, lists, dicts, mods, out>>

\* `for item in lst: self._call_volt_function(fn, [item], env)`
\* the in-place methods of _call_dict_method: src/interpreter.py 555-563, 572-574
_call_dict_method ==
  /\ Acting("MethodCall")
  /\ Top.vals[1].k = "dict"
  /\ Top.node.method \in DictMutators
  /\ LET d == dicts[Top.vals[1].n]
         method == Top.node.method
         args == Tail(Top.vals)
     IN  IF method # "clear" /\ args # <<>> /\ ~Hashable(args[1]) THEN Unmodelled
         ELSE /\ dicts' = [dicts EXCEPT ![Top.vals[1].n] =
                             IF method = "clear" THEN <<>>
                             ELSE IF args = <<>> THEN d ELSE DictDel(d, args[1])]
              /\ Go(IF method = "clear" THEN ValueC(Below, Top.vals[1])
                    ELSE IF args = <<>> THEN RuntimeErrorC(Below, method \o "() needs 1 argument")
                    ELSE IF DictHas(d, args[1]) THEN ValueC(Below, DictGet(d, args[1]))
                    ELSE ValueC(Below, NullV))
              /\ UNCHANGED <<pid, status, envs, funcs, classes, insts, lists, mods, out, trace>>

_call_list_method ==
  \/ /\ Acting("MethodCall")
     /\ Top.vals[1].k = "list"
     /\ Top.node.method \in ListMutators
     /\ LET r == ListMutation(Top.vals[1].n, Top.node.method, Tail(Top.vals))
        IN  IF r.r = "none" THEN Unmodelled
            ELSE /\ lists' = [lists EXCEPT ![Top.vals[1].n] = r.lst]
                 /\ Go(CASE r.r = "value" -> ValueC(Below, r.v)
                          [] r.r = "VoltRuntimeError" -> RuntimeErrorC(Below, r.msg)
                          [] OTHER -> HostErrorC(Below, r.r, r.msg))
                 /\ UNCHANGED <<pid, status, envs, funcs, classes, insts, dicts, mods, out, trace>>
  \/ /\ Top.k = "list_method"
     /\ \/ /\ mode = "step"
           /\ Top.i <= Len(lists[Top.lst])
           /\ _call_volt_function(stack, Top.fn, <<lists[Top.lst][Top.i]>>, Top.env, Top.env)
           /\ UNCHANGED <<lists, dicts>>
        \/ /\ mode = "value"
           /\ Plain(StepC([stack EXCEPT ![Len(stack)].i = Top.i + 1,
                                        ![Len(stack)].acc = Append(Top.acc, val)]))
           /\ UNCHANGED <<lists, dicts>>
        \/ /\ mode = "step"
           /\ Top.i > Len(lists[Top.lst])
           /\ IF Top.method = "map"
                THEN (lists' = Append(lists, Top.acc) /\ UNCHANGED dicts
                      /\ Plain(ValueC(Below, ListV(Len(lists) + 1))))
                ELSE UNCHANGED <<lists, dicts>> /\ Plain(ValueC(Below, NullV))
     /\ UNCHANGED <<pid, status, funcs, classes, insts, mods, out>>

\* a module function returned, or raised KeyError/RuntimeError
ModuleCallEnds ==
  /\ Top.k = "module_call"
  /\ \/ mode = "value" /\ Go(ValueC(Below, val))
     \/ mode = "signal" /\ sig.type \in {"KeyError", "RuntimeError"}
                        /\ Go(RuntimeErrorC(Below, sig.text))
  /\ UNCHANGED <<pid, status, heapvars, out, trace>>

_exec_NewExpression ==
  \/ /\ mode = "eval"
     /\ cur[1].t = "NewExpression"
     /\ LET r == Environment_get(envs, cenv, cur[1].class_name)
        IN  Go(IF ~r.found
                 THEN RuntimeErrorC(stack, "Undefined variable: '" \o cur[1].class_name \o "'")
               ELSE IF r.value.k # "class"
                 THEN RuntimeErrorC(stack, "'" \o cur[1].class_name \o "' is not a class")
               ELSE EnterC(stack, cur[1], cenv))
     /\ UNCHANGED <<pid, status, heapvars, out, trace>>
  \/ /\ Acting("NewExpression")
     /\ _instantiate_class(Below, Environment_get(envs, Top.env, Top.node.class_name).value.n,
                           Top.vals, Top.env)
     /\ UNCHANGED <<pid, status, funcs, classes, lists, dicts, mods, out>>

\* the checks of _exec_SuperMethodCall before the arguments: "" when passed
SuperCheck(e, method) ==
  LET this == Environment_get(envs, e, "this")
      current_class == Environment_get(envs, e, "__class__")
  IN  IF ~this.found THEN "Undefined variable: 'this'"
      ELSE IF ~current_class.found THEN "Undefined variable: '__class__'"
      ELSE IF current_class.value.k # "class" \/ classes[current_class.value.n].parent = 0
        THEN "'super' used outside of a subclass method"
      ELSE IF find_method(classes, classes[current_class.value.n].parent, method) = 0
        THEN "Parent class has no method '" \o method \o "'"
      ELSE ""

_exec_SuperMethodCall ==
  \/ /\ mode = "eval"
     /\ cur[1].t = "SuperMethodCall"
     /\ Go(IF SuperCheck(cenv, cur[1].method) # ""
             THEN RuntimeErrorC(stack, SuperCheck(cenv, cur[1].method))
             ELSE EnterC(stack, cur[1], cenv))
     /\ UNCHANGED <<pid, status, heapvars, out, trace>>
  \/ /\ Acting("SuperMethodCall")
     /\ LET this == Environment_get(envs, Top.env, "this").value
            parent == classes[Environment_get(envs, Top.env, "__class__").value.n].parent
        IN  Invoke(Below, "_exec_SuperMethodCall", find_method(classes, parent, Top.node.method),
                   Top.env, Top.vals, this, ClassV(parent), NullV, Top.env)
     /\ UNCHANGED <<pid, status, funcs, classes, insts, lists, dicts, mods, out>>

-----------------------------------------------------------------------------
(* Classes and modules: src/interpreter.py 1145-1159, 1235-1274.           *)

\* index of the last method declaration named n
LastNamed(ms, n) ==
  CHOOSE i \in 1..Len(ms) : ms[i].name = n /\ \A j \in (i + 1)..Len(ms) : ms[j].name # n

_exec_ClassDeclaration ==
  /\ mode = "eval"
  /\ cur[1].t = "ClassDeclaration"
  /\ LET nd == cur[1]
         p  == Environment_get(envs, cenv, nd.parent)
         ms == nd.methods
     IN  IF nd.parent # "" /\ ~p.found
           THEN /\ Go(RuntimeErrorC(stack, "Undefined variable: '" \o nd.parent \o "'"))
                /\ UNCHANGED <<envs, funcs, classes>>
         ELSE IF nd.parent # "" /\ p.value.k # "class"
           THEN /\ Go(RuntimeErrorC(stack, "'" \o nd.parent \o "' is not a class"))
                /\ UNCHANGED <<envs, funcs, classes>>
         ELSE /\ funcs' = funcs \o [i \in 1..Len(ms) |->
                                     VoltFunction(ms[i].name, ms[i].params, ms[i].body, cenv)]
              /\ classes' = Append(classes,
                   [name |-> nd.name,
                    parent |-> IF nd.parent = "" THEN 0 ELSE p.value.n,
                    methods |-> [n \in {ms[i].name : i \in 1..Len(ms)} |->
                                   Len(funcs) + LastNamed(ms, n)],
                    env |-> cenv])
              /\ envs' = Environment_set(envs, cenv, nd.name, ClassV(Len(classes) + 1))
              /\ Go(ValueC(stack, ClassV(Len(classes) + 1)))
  /\ UNCHANGED <<pid, status, insts, lists, dicts, mods, out, trace>>

\* stdlib.BUILTIN_MODULES
BuiltinModules == {"math", "random", "time", "file"}

\* the VoltModule built from the module environment's bindings
VoltModule(name, module_env) ==
  LET vs == envs[module_env].variables
  IN  [name |-> name, properties |-> vs,
       methods |-> [n \in {x \in DOMAIN vs : vs[x].k = "function"} |-> vs[n].n],
       env |-> module_env]

_exec_UseStatement ==
  \/ /\ mode = "eval"
     /\ cur[1].t = "UseStatement"
     /\ LET name == cur[1].module_name
        IN  IF name \in BuiltinModules THEN Unmodelled
            ELSE IF name \notin DOMAIN ModuleFiles
              THEN /\ Go(RuntimeErrorC(stack, "Module not found: '" \o name \o "'"))
                   /\ UNCHANGED <<pid, status, heapvars, out, trace>>
            ELSE /\ envs' = Append(envs, Environment(1))
                 /\ Go(StepC(Append(stack, [k |-> "use", node |-> cur[1], env |-> cenv,
                                            module_env |-> Len(envs) + 1,
                                            stmts |-> ModuleFiles[name], pc |-> 1])))
                 /\ UNCHANGED <<pid, status, funcs, classes, insts, lists, dicts, mods, out, trace>>
  \/ \* `for stmt in tree.statements: self.execute(stmt, module_env)`
     /\ Top.k = "use"
     /\ mode \in {"step", "value"}
     /\ Top.pc <= Len(Top.stmts)
     /\ Go(EvalC([stack EXCEPT ![Len(stack)].pc = Top.pc + 1], Top.stmts[Top.pc], Top.module_env))
     /\ UNCHANGED <<pid, status, heapvars, out, trace>>
  \/ /\ Top.k = "use"
     /\ mode \in {"step", "value"}
     /\ Top.pc > Len(Top.stmts)
     /\ mods' = Append(mods, VoltModule(Top.node.module_name, Top.module_env))
     /\ envs' = Environment_set(envs, Top.env, Top.node.module_name, ModV(Len(mods) + 1))
     /\ Go(ValueC(Below, ModV(Len(mods) + 1)))
     /\ Log(<<[ev |-> "use", env |-> Top.env, module_env |-> Top.module_env,
               name |-> Top.node.module_name]>>)
     /\ UNCHANGED <<pid, status, funcs, classes, insts, lists, dicts, out>>

-----------------------------------------------------------------------------
(* Exception propagation and the end of the run.                           *)

\* the handler activation has an except/finally clause for the exception
Handles(f, s) ==
  \/ f.k = "call" /\ f.phase = "body" /\ s.type = "ReturnSignal"
  \/ f.k = "loop" /\ f.phase = "body" /\ s.type \in {"BreakSignal", "ContinueSignal"}
  \/ f.k = "try"
  \/ f.k = "module_call" /\ s.type \in {"KeyError", "RuntimeError"}

\* an exception leaves a handler that does not catch it
Propagate ==
  /\ mode = "signal"
  /\ stack # <<>>
  /\ ~Handles(Top, sig)
  /\ Go(SignalC(Below, sig))
  /\ Log(IF Top.k = "call" THEN <<[ev |-> "unwind", call |-> Top.id, sig |-> sig]>> ELSE <<>>)
  /\ UNCHANGED <<pid, status, heapvars, out>>

\* volt.run_file: src/volt.py 90-106.  VoltRuntimeError is reported with
\* the bolt glyph; any other exception class leaves the host uncaught.
run_file ==
  /\ stack = <<>>
  /\ \/ /\ mode = "value"
        /\ status' = "done"
        /\ out' = out
     \/ /\ mode = "signal"
        /\ sig.type = "VoltRuntimeError"
        /\ status' = "runtime_error"
        /\ out' = Append(out, "⚡ " \o sig.text)
     \/ /\ mode = "signal"
        /\ sig.type # "VoltRuntimeError"
        /\ status' = "host_crash"
        /\ out' = out
  /\ mode' = "halt"
  /\ nid' = nid + 1
  /\ UNCHANGED <<pid, cur, cenv, val, sig, stack, heapvars, trace>>
  /\ UNCHANGED frontvars

-----------------------------------------------------------------------------

(* The lexer's string scanner, src/lexer.py 161-276.  `pos` is Python's     *)
(* zero-based self.pos, so the character under it is src[pos + 1].         *)

\* characters of the string bodies that are scanned
Alphabet == {"{", "}", "\"", "'", "\\", "a"}

\* longest string body that is scanned
MaxLen == 5

\* an f-string from its opening double quote, with and without a closing
\* one before the end of the text
Source(body, closed) ==
  <<"\"">> \o body \o (IF closed THEN <<"\"">> ELSE <<>>)

NoToken == [type |-> "none"]

peek(src, pos) == IF pos < Len(src) THEN src[pos + 1] ELSE "NUL"

\* escape_map.get(esc, '\\' + esc)
escape_map(esc) ==
  CASE esc = "n" -> <<"LF">>
    [] esc = "t" -> <<"TAB">>
    [] esc = "0" -> <<"NUL">>
    [] esc \in {"\\", "\"", "'", "{", "}"} -> <<esc>>
    [] OTHER -> <<"\\", esc>>

\* a scanner that takes a quote inside an expression for an ordinary character
nested_string_plain(src, pos, q, result) ==
  [pos |-> pos, result |-> result, err |-> ""]

\* the inner loop of _read_interpolation_expr: a nested string literal
\* opened by q, which has been consumed and appended already
RECURSIVE nested_string(_, _, _, _)
nested_string(src, pos, q, result) ==
  IF pos < Len(src) /\ peek(src, pos) # q
  THEN IF peek(src, pos) = "\\"
       THEN IF pos + 1 < Len(src)
            THEN nested_string(src, pos + 2, q,
                               result \o <<src[pos + 1], src[pos + 2]>>)
            ELSE [pos |-> pos + 1, result |-> result, err |-> "IndexError"]
       ELSE nested_string(src, pos + 1, q, Append(result, src[pos + 1]))
  ELSE IF pos < Len(src)
       THEN [pos |-> pos + 1, result |-> Append(result, src[pos + 1]),
             err |-> ""]
       ELSE [pos |-> pos, result |-> result, err |-> ""]

RECURSIVE _read_interpolation_expr(_, _, _, _)
_read_interpolation_expr(src, pos, depth, result) ==
  IF pos < Len(src) /\ depth > 0
  THEN LET ch == peek(src, pos) IN
       IF ch = "{"
       THEN _read_interpolation_expr(src, pos + 1, depth + 1,
                                     Append(result, ch))
       ELSE IF ch = "}"
       THEN IF depth - 1 > 0
            THEN _read_interpolation_expr(src, pos + 1, depth - 1,
                                          Append(result, ch))
            ELSE _read_interpolation_expr(src, pos + 1, depth - 1, result)
       ELSE IF ch = "\"" \/ ch = "'"
       THEN LET s == nested_string(src, pos + 1, ch, Append(result, ch)) IN
            IF s.err # "" THEN s
            ELSE _read_interpolation_expr(src, s.pos, depth, s.result)
       ELSE _read_interpolation_expr(src, pos + 1, depth, Append(result, ch))
  ELSE [pos |-> pos, result |-> result, err |-> ""]

Raised(class, pos) == [type |-> class, value |-> <<>>, pos |-> pos]

\* the while loop of read_string and what follows it
RECURSIVE read_string_loop(_, _, _, _)
read_string_loop(src, quote_char, interpolate, st) ==
  IF st.pos < Len(src) /\ peek(src, st.pos) # quote_char
  THEN LET ch == peek(src, st.pos) IN
       IF ch = "\\"
       THEN IF st.pos + 1 >= Len(src) THEN Raised("LexerError", st.pos + 1)
            ELSE read_string_loop(src, quote_char, interpolate,
                   [st EXCEPT !.pos = @ + 2,
                              !.current_text = @ \o escape_map(src[st.pos + 2])])
       ELSE IF ch = "{" /\ interpolate
       THEN LET parts == IF st.current_text # <<>>
                         THEN Append(st.parts, <<"text", st.current_text>>)
                         ELSE st.parts
                e == _read_interpolation_expr(src, st.pos + 1, 1, <<>>)
            IN IF e.err # "" THEN Raised(e.err, e.pos)
               ELSE read_string_loop(src, quote_char, interpolate,
                      [pos |-> e.pos,
                       parts |-> Append(parts, <<"expr", e.result>>),
                       current_text |-> <<>>,
                       has_interpolation |-> TRUE])
       ELSE IF ch = "LF" THEN Raised("LexerError", st.pos)
       ELSE read_string_loop(src, quote_char, interpolate,
              [st EXCEPT !.pos = @ + 1, !.current_text = Append(@, ch)])
  ELSE IF st.pos >= Len(src) THEN Raised("LexerError", st.pos)
  ELSE IF ~st.has_interpolation
       THEN [type |-> "string", value |-> st.current_text, pos |-> st.pos + 1]
       ELSE [type |-> "interp",
             value |-> IF st.current_text # <<>>
                       THEN Append(st.parts, <<"text", st.current_text>>)
                       ELSE st.parts,
             pos |-> st.pos + 1]

\* read_string(quote_char, interpolate) with self.pos on the opening quote
read_string(src, pos, quote_char, interpolate) ==
  read_string_loop(src, quote_char, interpolate,
    [pos |-> pos + 1, parts |-> <<>>, current_text |-> <<>>,
     has_interpolation |-> FALSE])

\* tokenize() on f"...": lexer.py 336-344, the `f` already consumed
tokenize ==
  /\ token = NoToken
  /\ token' = read_string(source, 0, peek(source, 0), TRUE)
  /\ UNCHANGED <<source, tokens, tree>>
  /\ UNCHANGED <<pid, status, mode, cur, cenv, val, sig, stack, heapvars,
                 out, trace, nid>>

-----------------------------------------------------------------------------
(* The parser's expression statements, src/parser.py 82-141, 481-586 and   *)
(* 599-758, on token streams without operators, commas, brackets, braces   *)
(* or `=>`: the precedence levels from parse_or down to parse_unary match  *)
(* none of their operator tokens and hand parse_postfix's result through,  *)
(* _parse_arg_list finds no comma, and _parse_paren_or_lambda's attempt at *)
(* a lambda fails for want of `=>`, which leaves the grouped expression.   *)
(* `pos` is Python's zero-based self.pos.                                  *)

TokenTypes == {"IDENTIFIER", "DOT", "LPAREN", "RPAREN", "NEWLINE"}

\* longest token stream that is parsed
MaxTokens == 7

NoTree == [ok |-> FALSE, node |-> <<>>, pos |-> 0]

\* raise ParserError(...)
ParserError(pos) == [ok |-> FALSE, node |-> <<"ParserError">>, pos |-> pos]
Parsed(node, pos) == [ok |-> TRUE, node |-> node, pos |-> pos]

\* every identifier token carries the same name
TokenValue == "f"

RECURSIVE parse_postfix(_, _)
parse_expression(ts, pos) == parse_postfix(ts, pos)

\* Expects '(' already consumed
_parse_arg_list(ts, pos) ==
  IF ts[pos + 1] # "RPAREN"
    THEN LET e == parse_expression(ts, pos)
         IN  IF ~e.ok THEN e
             ELSE IF ts[e.pos + 1] # "RPAREN" THEN ParserError(e.pos)
             ELSE Parsed(<<e.node>>, e.pos + 1)
    ELSE Parsed(<<>>, pos + 1)

parse_primary(ts, pos) ==
  IF ts[pos + 1] = "IDENTIFIER" THEN Parsed(Identifier(TokenValue), pos + 1)
  ELSE IF ts[pos + 1] = "LPAREN"
    THEN LET e == parse_expression(ts, pos + 1)
         IN  IF ~e.ok THEN e
             ELSE IF ts[e.pos + 1] # "RPAREN" THEN ParserError(e.pos)
             ELSE Parsed(e.node, e.pos + 1)
  ELSE ParserError(pos)

\* the `while True:` of parse_postfix
RECURSIVE postfix(_, _, _)
postfix(ts, pos, expr) ==
  IF ts[pos + 1] = "DOT"
    THEN IF ts[pos + 2] # "IDENTIFIER" THEN ParserError(pos + 1)
         ELSE IF ts[pos + 3] = "LPAREN"
           THEN LET a == _parse_arg_list(ts, pos + 3)
                IN  IF ~a.ok THEN a
                    ELSE postfix(ts, a.pos, MethodCall(expr, TokenValue, a.node))
         ELSE postfix(ts, pos + 2, DotAccess(expr, TokenValue))
  ELSE IF ts[pos + 1] = "LPAREN"
    THEN IF expr.t = "Identifier"
           THEN LET a == _parse_arg_list(ts, pos + 1)
                IN  IF ~a.ok THEN a
                    ELSE postfix(ts, a.pos, FunctionCall(expr.name, a.node))
         ELSE IF expr.t \in {"IndexAccess", "CallExpression", "DotAccess"}
           THEN LET a == _parse_arg_list(ts, pos + 1)
                IN  IF ~a.ok THEN a
                    ELSE postfix(ts, a.pos, CallExpression(expr, a.node))
         ELSE Parsed(expr, pos)
  ELSE Parsed(expr, pos)

parse_postfix(ts, pos) ==
  LET p == parse_primary(ts, pos)
  IN  IF ~p.ok THEN p ELSE postfix(ts, p.pos, p.node)

RECURSIVE skip_newlines(_, _)
skip_newlines(ts, pos) ==
  IF ts[pos + 1] = "NEWLINE" THEN skip_newlines(ts, pos + 1) ELSE pos

\* Parser.parse: the statements up to EOF, each an expression statement
RECURSIVE parse_statements(_, _, _)
parse_statements(ts, pos, statements) ==
  LET p == skip_newlines(ts, pos)
  IN  IF ts[p + 1] = "EOF" THEN Parsed(Program(statements), p)
      ELSE LET stmt == parse_expression(ts, p)
           IN  IF ~stmt.ok THEN stmt
               ELSE parse_statements(ts, stmt.pos, Append(statements, stmt.node))

\* Lexer.tokenize ends every stream with EOF
Parser_parse(ts) == parse_statements(Append(ts, "EOF"), 0, <<>>)

parse ==
  /\ tree = NoTree
  /\ tree' = Parser_parse(tokens)
  /\ UNCHANGED <<source, token, tokens>>
  /\ UNCHANGED <<pid, status, mode, cur, cenv, val, sig, stack, heapvars,
                 out, trace, nid>>

-----------------------------------------------------------------------------

Init ==
  /\ source = <<>>
  /\ token = NoToken
  /\ tokens = <<>>
  /\ tree = NoTree
  /\ pid \in 1..Len(Catalogue)
  /\ status = "running"
  /\ mode = "eval"
  /\ cur = <<Catalogue[pid]>>
  /\ cenv = 1
  /\ val = NullV
  /\ sig = NoSig
  /\ stack = <<>>
  /\ envs = <<Environment(0)>>
  /\ funcs = <<>>
  /\ classes = <<>>
  /\ insts = <<>>
  /\ lists = <<>>
  /\ dicts = <<>>
  /\ mods = <<>>
  /\ out = <<>>
  /\ trace = <<>>
  /\ nid = 1

Next ==
  \/ execute
  \/ OperandDone
  \/ _exec_Literal
  \/ _exec_ListLiteral
  \/ _exec_DictLiteral
  \/ _exec_Identifier
  \/ _exec_IndexAccess
  \/ _exec_DotAccess
  \/ _exec_BinaryOp
  \/ _exec_UnaryOp
  \/ _bind_params
  \/ CallBody
  \/ CallReturn
  \/ _exec_block
  \/ _exec_Assignment
  \/ _exec_DestructureList
  \/ _exec_DestructureDict
  \/ _exec_PushStatement
  \/ _exec_PopStatement
  \/ _exec_ShowStatement
  \/ _exec_IfStatement
  \/ _exec_WhileStatement
  \/ _exec_LoopTimesStatement
  \/ _exec_ForInStatement
  \/ _exec_FuncDeclaration
  \/ _exec_LambdaExpression
  \/ _exec_ReturnStatement
  \/ _exec_BreakStatement
  \/ _exec_ContinueStatement
  \/ _exec_ThrowStatement
  \/ _exec_TryCatchStatement
  \/ _exec_FunctionCall
  \/ _exec_CallExpression
  \/ _exec_MethodCall
  \/ _call_list_method
  \/ _call_dict_method
  \/ ModuleCallEnds
  \/ _exec_NewExpression
  \/ _exec_SuperMethodCall
  \/ _exec_ClassDeclaration
  \/ _exec_UseStatement
  \/ Propagate
  \/ run_file

Spec == Init /\ [][Next]_vars

\* the lexer alone, on every string body up to MaxLen, before any program
\* is handed to the evaluator
LexInit ==
  /\ \E n \in 0..MaxLen : \E body \in [1..n -> Alphabet] :
       \E closed \in BOOLEAN : source = Source(body, closed)
  /\ token = NoToken
  /\ tokens = <<>>
  /\ tree = NoTree
  /\ pid = 1
  /\ status = "running"
  /\ mode = "eval"
  /\ cur = <<>>
  /\ cenv = 1
  /\ val = NullV
  /\ sig = NoSig
  /\ stack = <<>>
  /\ envs = <<Environment(0)>>
  /\ funcs = <<>>
  /\ classes = <<>>
  /\ insts = <<>>
  /\ lists = <<>>
  /\ dicts = <<>>
  /\ mods = <<>>
  /\ out = <<>>
  /\ trace = <<>>
  /\ nid = 1

LexNext == tokenize

LexSpec == LexInit /\ [][LexNext]_vars

\* the parser alone, on every line of up to MaxTokens tokens
ParseInit ==
  /\ \E n \in 0..MaxTokens : tokens \in [1..n -> TokenTypes]
  /\ tree = NoTree
  /\ source = <<>>
  /\ token = NoToken
  /\ pid = 1
  /\ status = "running"
  /\ mode = "eval"
  /\ cur = <<>>
  /\ cenv = 1
  /\ val = NullV
  /\ sig = NoSig
  /\ stack = <<>>
  /\ envs = <<Environment(0)>>
  /\ funcs = <<>>
  /\ classes = <<>>
  /\ insts = <<>>
  /\ lists = <<>>
  /\ dicts = <<>>
  /\ mods = <<>>
  /\ out = <<>>
  /\ trace = <<>>
  /\ nid = 1

ParseNext == parse

ParseSpec == ParseInit /\ [][ParseNext]_vars

\* every construct the catalogue reaches is one the model covers
Modelled == status # "unmodelled"

\* the run has ended
Halted == mode = "halt"

-----------------------------------------------------------------------------
(* Properties.  They are stated over the history `trace` of events the     *)
(* handlers record, and over the heaps.                                    *)

\* positions in the history of the events of one kind
Ev(e) == {i \in DOMAIN trace : trace[i].ev = e}

Max(S) == CHOOSE x \in S : \A y \in S : y <= x

\* the frames from e to the root
RECURSIVE Chain(_, _)
Chain(es, e) == IF e = 0 THEN {} ELSE {e} \cup Chain(es, es[e].parent)

\* the innermost frame on the chain from e that binds name (0: none)
RECURSIVE Binder(_, _, _)
Binder(es, e, name) ==
  IF e = 0 THEN 0
  ELSE IF name \in DOMAIN es[e].variables THEN e
  ELSE Binder(es, es[e].parent, name)

Control == {"ReturnSignal", "BreakSignal", "ContinueSignal"}

\* the exception with this identity is still on its way: in flight, or held
\* by a try activation while its finally clause runs
InFlight(id) ==
  \/ mode = "signal" /\ sig.id = id
  \/ \E k \in DOMAIN stack : stack[k].k = "try" /\ stack[k].pend.id = id

\* a finally clause that ended abruptly replaced the exception with this identity
Overridden(id) ==
  \E j \in Ev("try_exit") : trace[j].pend.id = id /\ trace[j].fin_end = "abrupt"

\* the try activation is on the stack, running its try body
TryInBody(id) ==
  \E k \in DOMAIN stack : stack[k].k = "try" /\ stack[k].id = id /\ stack[k].phase = "body"

\* C1: whenever control leaves a try form that has a finally clause -- the
\* body or the catch body having ended normally, by throw, runtime error,
\* return, break or continue -- its finally body has been entered exactly
\* once, and before the leave.
C1_FinallyRunsOnceBeforeLeaving ==
  /\ \A j \in Ev("try_exit") :
       trace[j].has_finally =>
         /\ Cardinality({i \in Ev("finally") : trace[i].id = trace[j].id}) = 1
         /\ \E i \in Ev("finally") : trace[i].id = trace[j].id /\ i < j
  /\ \A i \in Ev("try") :
       \/ \E k \in DOMAIN stack : stack[k].k = "try" /\ stack[k].id = trace[i].id
       \/ Cardinality({j \in Ev("try_exit") : trace[j].id = trace[i].id}) = 1

\* C1 happens: a try body failed with a runtime error, its catch body ended
\* with break, the finally body ran and only then the break left the form.
C1_Witness ==
  \E j \in Ev("try_exit") :
    /\ trace[j].has_finally
    /\ trace[j].caught.type = "VoltRuntimeError"
    /\ trace[j].pend.type = "BreakSignal"
    /\ trace[j].leaving = trace[j].pend
    /\ \E i \in Ev("finally") : trace[i].id = trace[j].id /\ i < j

\* C2 as stated: a value thrown while a try/catch is dynamically enclosing
\* is delivered to the catch clause of the innermost such try/catch, bound
\* to exactly the thrown value, and to no other catch clause.
C2_ThrowReachesInnermostCatch ==
  \A i \in Ev("throw") :
    trace[i].target # 0 =>
      /\ \A j \in Ev("catch") :
           trace[j].sig.id = trace[i].id =>
             trace[j].id = trace[i].target /\ trace[j].bound = trace[i].value
      /\ ~TryInBody(trace[i].target) =>
           \E j \in Ev("catch") : trace[j].sig.id = trace[i].id /\ trace[j].id = trace[i].target

\* C3: a caught runtime error binds the catch variable to the string
\* "Runtime Error: " followed by the message the failing check raised.
C3_CaughtRuntimeErrorText ==
  \A j \in Ev("catch") :
    trace[j].sig.type = "VoltRuntimeError" =>
      trace[j].bound = StrV("Runtime Error: " \o trace[j].sig.raw)

\* C3 happens: a division by zero was caught.
C3_Witness ==
  \E j \in Ev("catch") :
    /\ trace[j].sig.type = "VoltRuntimeError"
    /\ trace[j].sig.raw = "Division by zero"
    /\ trace[j].bound = StrV("Runtime Error: Division by zero")

\* C3 as stated: the catch variable holds the message text the failing
\* check raised the error with.
C3_CaughtTextIsRaisedMessage ==
  \A j \in Ev("catch") :
    trace[j].sig.type = "VoltRuntimeError" => trace[j].bound = StrV(trace[j].sig.raw)

\* C4: no catch clause runs for a return, break or continue and none is
\* swallowed; when such a signal passes through a try form whose finally
\* body (if any) completes normally, the same signal with the same value
\* leaves the form.
C4_ControlSignalsBypassTry ==
  /\ \A j \in Ev("catch") \cup Ev("swallow") : trace[j].sig.type \notin Control
  /\ \A j \in Ev("try_exit") :
       trace[j].pend.type \in Control =>
         /\ (trace[j].fin_end = "none") <=> ~trace[j].has_finally
         /\ trace[j].fin_end \in {"none", "normal"} => trace[j].leaving = trace[j].pend

\* C4 happens: a return passed a try form that has both a catch and a
\* finally clause, and left it unchanged after the finally body.
C4_Witness ==
  \E j \in Ev("try_exit") :
    /\ trace[j].pend.type = "ReturnSignal"
    /\ trace[j].has_catch /\ trace[j].has_finally
    /\ trace[j].fin_end = "normal"
    /\ trace[j].caught.type = "none"
    /\ trace[j].leaving = trace[j].pend

\* C4 as stated: a return, break or continue that passes through a try
\* form leaves it as the same signal with the same value, in every case.
C4_SameSignalAlwaysLeaves ==
  \A j \in Ev("try_exit") :
    trace[j].pend.type \in Control => trace[j].leaving = trace[j].pend

\* what a call left by `return v` yields: the constructor the instance,
\* stringification the string, every other form v itself
ReturnYield(x, v) ==
  CASE x.kind = "_instantiate_class" -> x.value.k = "instance"
    [] x.kind = "_to_string"         -> v.k = "string" => x.value = v
    [] OTHER                         -> x.value = v

\* the return executed at position i ends its own call, once, with its value
EndsItsCall(i) ==
  LET r == trace[i]
      exits == {j \in Ev("call_exit") : trace[j].sigid = r.id}
  IN  /\ Cardinality(exits) <= 1
      /\ \A j \in exits : /\ trace[j].call = r.call
                          /\ trace[j].returned
                          /\ ReturnYield(trace[j], r.value)
      /\ ~InFlight(r.id) => exits # {}

C6_TopLevelSignalIsRuntimeError ==
  Halted /\ sig.type \in Control => status = "runtime_error"

\* C7: every call runs in a frame of its own whose parent is the function's
\* captured environment and which starts with the parameters (and this)
\* only; a name read in the callee resolves in that frame or on the
\* closure's chain, never in a frame that only the caller reaches.
C7_LexicalScoping ==
  /\ \A i \in Ev("call") :
       /\ envs[trace[i].func_env].parent = funcs[trace[i].fn].closure_env
       /\ \A j \in Ev("call") : j # i => trace[j].func_env # trace[i].func_env
       /\ \A j \in Ev("read") :
            trace[j].env = trace[i].func_env =>
              trace[j].frame \in {trace[i].func_env}
                                 \cup Chain(envs, funcs[trace[i].fn].closure_env)
  /\ \A j \in Ev("body") :
       DOMAIN trace[j].bound \subseteq
         {trace[j].params[q].name : q \in DOMAIN trace[j].params} \cup {"this", "__class__"}

\* C7 happens: the callee failed to read a name that the frame of its call
\* site binds, that frame not being the function's captured environment.
C7_Witness ==
  \E u \in Ev("undefined") : \E c \in Ev("call") :
    /\ trace[u].call = trace[c].id
    /\ trace[u].env = trace[c].func_env
    /\ trace[u].name \in DOMAIN envs[trace[c].site].variables
    /\ trace[c].site # funcs[trace[c].fn].closure_env

\* C8: `set name = value` in frame F updates the binding of the innermost
\* frame on F's chain that binds name, or binds name in F when none does;
\* no frame is added, no other binding changes, and name then reads as
\* value from F.
C8_SetChangesOneBinding ==
  [][(Acting("Assignment") /\ Top.node.target.t = "Identifier") =>
       LET F == Top.env
           name == Top.node.target.name
           value == Top.vals[1]
           b == Binder(envs, F, name)
           tgt == IF b # 0 THEN b ELSE F
       IN  /\ DOMAIN envs' = DOMAIN envs
           /\ \A e \in DOMAIN envs :
                /\ envs'[e].parent = envs[e].parent
                /\ DOMAIN envs'[e].variables =
                     DOMAIN envs[e].variables \cup (IF e = tgt THEN {name} ELSE {})
                /\ \A x \in DOMAIN envs[e].variables :
                     (e # tgt \/ x # name) => envs'[e].variables[x] = envs[e].variables[x]
           /\ envs'[tgt].variables[name] = value
           /\ Binder(envs', F, name) = tgt]_vars

\* C8 happens: an assignment inside a function updated a binding held by
\* an ancestor frame, the function's own frame staying without the name.
C8_Witness ==
  \E a \in Ev("assign") :
    /\ trace[a].frame # 0
    /\ trace[a].frame # trace[a].env
    /\ trace[a].name \notin DOMAIN envs[trace[a].env].variables
    /\ envs[trace[a].frame].variables[trace[a].name] = trace[a].value

\* the frame an assignment wrote to
AssignedFrame(a) == IF a.frame = 0 THEN a.env ELSE a.frame

\* C9: the closure pointer of a function value is the environment it was
\* created in and never changes; a read made during a call yields the value
\* most recently assigned to the binding it resolves to.
C9_ClosureByReference ==
  /\ \A i \in Ev("func") : funcs[trace[i].fn].closure_env = trace[i].env
  /\ \A j \in Ev("read") :
       trace[j].call # 0 =>
         LET as == {a \in Ev("assign") : /\ a < j
                                         /\ trace[a].name = trace[j].name
                                         /\ AssignedFrame(trace[a]) = trace[j].frame}
         IN  as # {} => trace[j].value = trace[Max(as)].value

\* C9 happens: a name of the defining scope was assigned after the function
\* was created, and a later call of the function read the assigned value.
C9_Witness ==
  \E f \in Ev("func") : \E a \in Ev("assign") : \E c \in Ev("call") : \E r \in Ev("read") :
    /\ f < a /\ a < c /\ c < r
    /\ trace[c].fn = trace[f].fn
    /\ trace[r].call = trace[c].id
    /\ trace[r].name = trace[a].name
    /\ trace[r].frame = AssignedFrame(trace[a])
    /\ trace[r].frame \in Chain(envs, trace[f].env)
    /\ trace[r].value = trace[a].value
    /\ \E a0 \in Ev("assign") : /\ a0 < f
                                /\ trace[a0].name = trace[a].name
                                /\ AssignedFrame(trace[a0]) = AssignedFrame(trace[a])
                                /\ trace[a0].value # trace[a].value

\* C10: parameters are bound positionally; a default expression is
\* evaluated in the environment of the call site, except in a call of a
\* loaded module's function, where it is evaluated in that module's own
\* environment; a parameter with neither argument nor default fails the
\* call before its body runs.
C10_DefaultsAndMissingArguments ==
  /\ \A i \in Ev("default") :
       IF trace[i].module
         THEN \E m \in DOMAIN mods :
                /\ mods[m].env = trace[i].env
                /\ \E x \in DOMAIN mods[m].methods : mods[m].methods[x] = trace[i].fn
         ELSE trace[i].env = trace[i].site
  /\ \A i \in Ev("missing_arg") : \A j \in Ev("body") : trace[j].call # trace[i].call
  /\ \A j \in Ev("body") :
       \A q \in DOMAIN trace[j].params :
         /\ trace[j].params[q].name \in DOMAIN trace[j].bound
         /\ q <= Len(trace[j].args) =>
              trace[j].bound[trace[j].params[q].name] = trace[j].args[q]
         /\ q > Len(trace[j].args) => trace[j].params[q].default # <<>>

\* C10 happens: a module function's default was evaluated in the module's
\* environment, not at the call site, and the parameter got that value.
C10_Witness ==
  \E i \in Ev("default") : \E j \in Ev("body") :
    /\ trace[i].module
    /\ trace[i].env # trace[i].site
    /\ trace[j].call = trace[i].call
    /\ trace[j].bound[trace[i].param] = StrV("module")

\* C10 as stated: in every call form the default expression is evaluated
\* in the environment of the call site.
C10_DefaultsAtCallSite ==
  \A i \in Ev("default") : trace[i].env = trace[i].site

\* C11: `new C(args)` and `C(args)` create a fresh instance with no
\* properties; when init is found on C's class chain its body runs once,
\* with this bound to the new instance and __class__ to C, and the
\* expression yields the instance whatever init returns; without init,
\* zero arguments yield the instance and one or more fail with a runtime
\* error.
C11_Construction ==
  \A i \in Ev("instantiate") :
    LET e == trace[i]
        init == find_method(classes, e.klass, "init")
        bodies == {j \in Ev("body") : trace[j].call = e.id}
    IN  /\ e.properties = EmptyMap
        /\ \A j \in Ev("instantiate") : j # i => trace[j].inst # e.inst
        /\ e.inst.k = "instance" /\ insts[e.inst.n].klass = e.klass
        /\ init # 0 =>
             /\ \A j \in bodies :
                  /\ trace[j].bound["this"] = e.inst
                  /\ trace[j].bound["__class__"] = ClassV(e.klass)
             /\ Cardinality(bodies) <= 1
             /\ \A j \in Ev("call_exit") :
                  trace[j].call = e.id =>
                    /\ Cardinality(bodies) = 1
                    /\ trace[j].value = e.inst
        /\ init = 0 =>
             /\ bodies = {}
             /\ e.args = <<>> => e.mode = "value" /\ e.val = e.inst
             /\ e.args # <<>> =>
                  /\ e.mode = "signal"
                  /\ e.text = "Runtime Error: Class '" \o classes[e.klass].name
                                \o "' constructor takes no arguments"

\* C11 happens: a class called by name inherited init from its parent;
\* init returned 99 and the construction yielded the instance.
C11_Witness ==
  \E i \in Ev("instantiate") : \E j \in Ev("call_exit") :
    /\ trace[i].node = "FunctionCall"
    /\ "init" \notin DOMAIN classes[trace[i].klass].methods
    /\ trace[j].call = trace[i].id
    /\ trace[j].returned
    /\ trace[j].value = trace[i].inst

\* the class whose declaration made the method fn (0: not a method)
DefiningClass(fn) ==
  IF \E c \in DOMAIN classes : \E x \in DOMAIN classes[c].methods : classes[c].methods[x] = fn
    THEN CHOOSE c \in DOMAIN classes :
           \E x \in DOMAIN classes[c].methods : classes[c].methods[x] = fn
    ELSE 0

\* C12: a `super.m(args)` executed inside a method defined in class B runs
\* the first definition of m found walking up from B's parent, with the
\* same this, whatever the class of the receiver.
C12_SuperStartsAtDefiningClassParent ==
  \A j \in Ev("call") :
    trace[j].kind = "_exec_SuperMethodCall" =>
      \A i \in Ev("call") :
        trace[i].id = trace[j].caller /\ DefiningClass(trace[i].fn) # 0 =>
          /\ trace[j].this = trace[i].this
          /\ trace[j].fn = find_method(classes, classes[DefiningClass(trace[i].fn)].parent,
                                       funcs[trace[j].fn].name)

\* the classes from c up the parent links, nearest first
RECURSIVE Ancestors(_)
Ancestors(c) == IF c = 0 THEN <<>> ELSE <<c>> \o Ancestors(classes[c].parent)

\* the method m of the nearest class on o's chain that defines one (0: none)
NearestMethod(o, m) ==
  LET up == Ancestors(insts[o.n].klass)
      def == {i \in 1..Len(up) : m \in DOMAIN classes[up[i]].methods}
  IN  IF def = {} THEN 0
      ELSE classes[up[CHOOSE i \in def : \A j \in def : i <= j]].methods[m]

\* the next state is a call of the function fn, made by the handler kind
Calls(kind, fn) ==
  /\ mode' = "step" /\ Len(stack') = Len(stack)
  /\ stack'[Len(stack')].k = "call"
  /\ stack'[Len(stack')].kind = kind
  /\ stack'[Len(stack')].fn = fn

\* the next state has the runtime error `message` in flight
Fails(message) ==
  /\ mode' = "signal" /\ sig'.type = "VoltRuntimeError" /\ sig'.raw = message
  /\ Len(stack') = Len(stack) - 1

OnInstance == Acting("MethodCall") /\ Top.vals[1].k = "instance"

\* C13 (amended): for `o.m(args)` on an instance o, an own property m
\* decides the call alone: a function held there is called and no class is
\* consulted, any other value held there fails the call with "'m' is not a
\* method" even when a class on the chain defines m; only without an own
\* property m does the method come from the nearest class, walking from o's
\* class up the parent links, and with none the call fails with a runtime error.
C13_OwnPropertyShadowsClassMethods ==
  [][OnInstance =>
       LET o == Top.vals[1]
           m == Top.node.method
           props == insts[o.n].properties
       IN  IF m \in DOMAIN props
             THEN IF props[m].k = "function"
                    THEN Calls("_call_volt_function", props[m].n)
                    ELSE Fails("'" \o m \o "' is not a method")
           ELSE IF NearestMethod(o, m) # 0
             THEN Calls("_call_instance_method", NearestMethod(o, m))
           ELSE Fails("'" \o classes[insts[o.n].klass].name \o "' has no method '" \o m \o "'")]_vars

\* an own property holding a number has failed the call of a method that
\* the receiver's parent class defines
C13_Witness ==
  /\ mode = "signal" /\ sig.raw = "'m' is not a method"
  /\ \E o \in DOMAIN insts :
       /\ "m" \in DOMAIN insts[o].properties
       /\ insts[o].properties["m"].k = "int"
       /\ "m" \notin DOMAIN classes[insts[o].klass].methods
       /\ find_method(classes, classes[insts[o].klass].parent, "m") # 0

\* C13 as stated: a function held by an own property is called, and in
\* every other case the method comes from the nearest class that defines it.
C13_ClassMethodUnlessOwnFunction ==
  [][OnInstance =>
       LET o == Top.vals[1]
           m == Top.node.method
           props == insts[o.n].properties
       IN  IF m \in DOMAIN props /\ props[m].k = "function"
             THEN Calls("_call_volt_function", props[m].n)
           ELSE IF NearestMethod(o, m) # 0
             THEN Calls("_call_instance_method", NearestMethod(o, m))
           ELSE Fails("'" \o classes[insts[o.n].klass].name \o "' has no method '" \o m \o "'")]_vars

\* the global variables, and the list a global variable x holds
Globals == envs[1].variables
Holds(x, kind) == x \in DOMAIN Globals /\ Globals[x].k = kind

\* set b = a, h = [a], d = {l: a} and o.l = a have all been executed
Aliased ==
  /\ Holds("a", "list") /\ Holds("b", "list")
  /\ Holds("h", "list") /\ Len(lists[Globals["h"].n]) = 1
  /\ Holds("d", "dict") /\ DictHas(dicts[Globals["d"].n], StrV("l"))
  /\ Holds("o", "instance") /\ "l" \in DOMAIN insts[Globals["o"].n].properties

\* what a, b, h[0], d.l, o.l and every parameter p denote
References ==
  {Globals["a"], Globals["b"], lists[Globals["h"].n][1],
   DictGet(dicts[Globals["d"].n], StrV("l")), insts[Globals["o"].n].properties["l"]}
  \cup {envs[e].variables["p"] : e \in {f \in DOMAIN envs : "p" \in DOMAIN envs[f].variables}}

\* the address of the list that the handler about to act mutates (0: none)
MutatedList ==
  IF mode # "apply" \/ Top.k # "operands" THEN 0
  ELSE CASE Top.node.t \in {"PushStatement", "PopStatement"} /\ Top.vals[1].k = "list" ->
              Top.vals[1].n
         [] Top.node.t = "Assignment" /\ Top.node.target.t = "IndexAccess"
              /\ Top.vals[2].k = "list" -> Top.vals[2].n
         [] Top.node.t = "MethodCall" /\ Top.vals[1].k = "list"
              /\ Top.node.method \in ListMutators -> Top.vals[1].n
         [] OTHER -> 0

\* C14: lists are shared by reference.  Once a list is also held by b
\* (assignment), p (argument), h[0] (list element), d.l (dict entry) and o.l
\* (instance property), all of them denote one list at every moment, and a
\* mutation made through any of them (push/pop statement, index assignment,
\* push, pop, shift, unshift, insert, remove, fill, clear) changes the
\* contents read through every one of them.
C14_ListsSharedByReference ==
  [][/\ Aliased' => Cardinality(References') = 1
     /\ (Aliased /\ MutatedList # 0 /\ mode' = "value") =>
          /\ References' = {ListV(MutatedList)}
          /\ lists'[MutatedList] # lists[MutatedList]]_vars

\* two mutations, the first made inside a function through its parameter,
\* have been shown through all five other references, and each showed
C14_Witness ==
  /\ Aliased
  /\ \E e \in DOMAIN envs : "p" \in DOMAIN envs[e].variables
                            /\ envs[e].variables["p"] = Globals["a"]
  /\ Len(out) = 10
  /\ out[1] # "[1, 2, 3]" /\ out[6] # out[1]
  /\ \A i \in 1..5 : out[i] = out[1] /\ out[5 + i] = out[6]

\* the calls made so far of the function named f, and what the one call returned
CallsOf(f) == {i \in Ev("call") : funcs[trace[i].fn].name = f}
Returned(f) ==
  LET c == CHOOSE i \in CallsOf(f) : TRUE
  IN  trace[CHOOSE j \in Ev("call_exit") : trace[j].call = trace[c].id].value

\* C15: once `set either = l() or r()` (`set both = l() and r()`) has
\* assigned, l has been called exactly once; when what l returned is truthy
\* (falsy for `and`) r has not been called and the variable holds that very
\* value; otherwise r has been called once and the variable holds what r
\* returned, not a boolean made of it.
C15_ShortCircuit ==
  \A x \in {"either", "both"} \cap DOMAIN Globals :
    /\ Cardinality(CallsOf("l")) = 1
    /\ IF (x = "either") = _is_truthy(Returned("l"))
         THEN CallsOf("r") = {} /\ Globals[x] = Returned("l")
         ELSE Cardinality(CallsOf("r")) = 1 /\ Globals[x] = Returned("r")

\* `[] or r()` went on to r and yielded r's falsy 0; `[0] and r()` did too
C15_Witness ==
  /\ \E x \in {"either", "both"} \cap DOMAIN Globals : Globals[x] = IntV(0)
  /\ Returned("l").k = "list"
  /\ Cardinality(CallsOf("r")) = 1
  /\ status = "done"

\* C16: inside a try body with a catch clause, an operator applied to
\* operands of mismatched types raises a runtime error (which the catch
\* clause then receives), never a failure of another kind.
C16_TypeMismatchIsRuntimeError ==
  (mode = "signal" /\ InnermostTryCatch(stack) # 0) => sig.type # "TypeError"

\* C17: the body of a function, lambda, method or constructor runs only
\* when the call passed no more positional arguments than it has parameters.
C17_ExtraArgumentsFail ==
  \A i \in Ev("body") : Len(trace[i].args) <= Len(trace[i].params)

\* C18: when a for-in loop goes on to its next element, whatever its body
\* did to the dict or list being iterated, the only failure that can come
\* out of it is a runtime error of the language.
C18_ForInSurvivesMutation ==
  [][(stack # <<>> /\ Top.k = "loop" /\ Top.node.t = "ForInStatement" /\ mode = "step"
      /\ mode' = "signal")
       => sig'.type = "VoltRuntimeError"]_vars

\* C19: on a module value, reading `m.name` with a name the module does not
\* have, like the failure of a call `m.name(args)` of such a name, comes out
\* as a runtime error of the language.
C19_UnknownModuleMemberIsRuntimeError ==
  [][/\ (Acting("DotAccess") /\ Top.vals[1].k = "module"
          /\ Top.node.property \notin DOMAIN mods[Top.vals[1].n].properties)
        => (mode' = "signal" /\ sig'.type = "VoltRuntimeError")
     /\ (stack # <<>> /\ Top.k = "module_call" /\ mode = "signal" /\ sig.type = "KeyError")
        => (mode' = "signal" /\ sig'.type = "VoltRuntimeError")]_vars

\* C20: `set [n1, ..., nk] = e` on a list of at least k elements binds, in
\* the current frame, each name to the element at its position (a name
\* written twice keeps its last position) and ignores the further elements,
\* leaving every other variable and the list as they were; on a shorter
\* list or a value that is not a list it fails with a runtime error and no
\* variable is bound or changed.
C20_ListDestructuring ==
  [][Acting("DestructureList") =>
       LET value == Top.vals[1]
           names == Top.node.names
           frame == envs[Top.env].variables
           bound == {names[i] : i \in 1..Len(names)}
       IN  IF value.k = "list" /\ Len(names) <= Len(lists[value.n])
             THEN /\ mode' = "value" /\ val' = NullV
                  /\ DOMAIN envs'[Top.env].variables = DOMAIN frame \cup bound
                  /\ \A i \in 1..Len(names) :
                       (\A j \in (i + 1)..Len(names) : names[j] # names[i]) =>
                         envs'[Top.env].variables[names[i]] = lists[value.n][i]
                  /\ \A x \in DOMAIN frame \ bound : envs'[Top.env].variables[x] = frame[x]
                  /\ \A e \in DOMAIN envs : e # Top.env => envs'[e] = envs[e]
                  /\ lists' = lists
             ELSE /\ mode' = "signal" /\ sig'.type = "VoltRuntimeError"
                  /\ envs' = envs]_vars

\* inside f, `set [n1, n2] = [1, 2, 3]` has bound n1 = 1 and n2 = 2 in f's
\* frame, and the global n1 still holds "old"
C20_Witness ==
  /\ Holds("n1", "string") /\ Globals["n1"] = StrV("old")
  /\ "n2" \notin DOMAIN Globals
  /\ \E e \in DOMAIN envs :
       /\ DOMAIN envs[e].variables = {"n1", "n2"}
       /\ envs[e].variables["n1"] = IntV(1)
       /\ envs[e].variables["n2"] = IntV(2)
  /\ \E l \in DOMAIN lists : Len(lists[l]) = 3

-----------------------------------------------------------------------------
(* C21.  The f-string body read as the grammar of fragments describes it:  *)
(* a scan position is in literal text, in an expression at some brace      *)
(* depth, or in a quoted string of an expression.                          *)

Place(m, d, q) == [m |-> m, d |-> d, q |-> q]

\* where the scan is after the character ch, having been at p before it
After(p, ch) ==
  CASE p.m = "text" ->
         IF ch = "\"" THEN Place("closed", 0, "")
         ELSE IF ch = "\\" THEN Place("escape", 0, "")
         ELSE IF ch = "{" THEN Place("expr", 1, "")
         ELSE p
    [] p.m = "escape" -> Place("text", 0, "")
    [] p.m = "expr" ->
         IF ch = "{" THEN Place("expr", p.d + 1, "")
         ELSE IF ch = "}"
              THEN IF p.d = 1 THEN Place("text", 0, "")
                   ELSE Place("expr", p.d - 1, "")
         ELSE IF ch \in {"\"", "'"} THEN Place("quoted", p.d, ch)
         ELSE p
    [] p.m = "quoted" ->
         IF ch = p.q THEN Place("expr", p.d, "")
         ELSE IF ch = "\\" THEN Place("quoted_escape", p.d, p.q)
         ELSE p
    [] p.m = "quoted_escape" -> Place("quoted", p.d, p.q)
    [] OTHER -> p

\* where the scan is after the first i characters of src
RECURSIVE PlaceAt(_, _)
PlaceAt(src, i) ==
  IF i <= 1 THEN Place("text", 0, "")
  ELSE After(PlaceAt(src, i - 1), src[i])

\* the closing quote of the string, the braces that open and close its
\* expressions
ClosingQuote(src) == {i \in 2..Len(src) : PlaceAt(src, i).m = "closed"
                                          /\ PlaceAt(src, i - 1).m = "text"}
OpeningBraces(src) == {i \in 2..Len(src) : PlaceAt(src, i - 1).m = "text"
                                           /\ PlaceAt(src, i).m = "expr"}
ClosingBraces(src) == {i \in 2..Len(src) : PlaceAt(src, i - 1).m = "expr"
                                           /\ PlaceAt(src, i).m = "text"}

Min(S) == CHOOSE x \in S : \A y \in S : x <= y

RECURSIVE Unescaped(_)
Unescaped(text) ==
  IF text = <<>> THEN <<>>
  ELSE IF text[1] = "\\"
       THEN escape_map(text[2]) \o Unescaped(SubSeq(text, 3, Len(text)))
       ELSE <<text[1]>> \o Unescaped(Tail(text))

\* the fragments of a terminated string, each with the position it starts at
FragmentsAt(src) ==
  LET close == Min(ClosingQuote(src))
      opens == {i \in OpeningBraces(src) : i < close}
      ends == opens \cup {close}
      starts == {1} \cup {i \in ClosingBraces(src) : i < close}
  IN {[at |-> o, part |-> <<"expr",
         SubSeq(src, o + 1, Min({c \in ClosingBraces(src) : c > o}) - 1)>>]
        : o \in opens}
     \cup
     {[at |-> s, part |-> <<"text",
         Unescaped(SubSeq(src, s + 1, Min({e \in ends : e > s}) - 1))>>]
        : s \in {t \in starts : Min({e \in ends : e > t}) > t + 1}}

RECURSIVE InOrder(_)
InOrder(frags) ==
  IF frags = {} THEN <<>>
  ELSE LET f == CHOOSE g \in frags : \A h \in frags : g.at <= h.at
       IN <<f.part>> \o InOrder(frags \ {f})

\* the fragments a token carries
Fragments(tok) ==
  IF tok.type = "interp" THEN tok.value
  ELSE IF tok.value = <<>> THEN <<>> ELSE <<<<"text", tok.value>>>>

\* C21: a string whose closing quote is found yields exactly the literal
\* texts and the raw expression texts in source order, an expression
\* running from an unescaped `{` to the first `}` at depth zero outside the
\* expression's quoted strings; it is an interpolated token exactly when it
\* has an expression; any other text yields no token
C21_FragmentsFollowBraceDepth ==
  token # NoToken =>
    IF ClosingQuote(source) # {}
    THEN /\ token.type \in {"string", "interp"}
         /\ Fragments(token) = InOrder(FragmentsAt(source))
         /\ token.type = "interp" <=>
              \E o \in OpeningBraces(source) : o < Min(ClosingQuote(source))
         /\ token.pos = Min(ClosingQuote(source))
    ELSE token.type \in {"LexerError", "IndexError"}

\* a closing brace inside a quoted string of the expression, left in the
\* expression's raw text
C21_Witness ==
  /\ source = <<"\"", "{", "\"", "}", "\"", "}", "\"">>
  /\ token.type = "interp"
  /\ token.value = <<<<"expr", <<"\"", "}", "\"">>>>>>

\* C22: a try form with a finally clause and no catch clause does not catch:
\* when its body is left by a thrown value or a runtime error and the
\* finally clause ends normally, the form is left by that same exception.
C22_FinallyOnlyTryDoesNotCatch ==
  \A j \in Ev("try_exit") :
    /\ trace[j].has_finally /\ ~trace[j].has_catch
    /\ trace[j].fin_end = "normal"
    /\ \E i \in Ev("swallow") : trace[i].id = trace[j].id
    => \E i \in Ev("swallow") :
         trace[i].id = trace[j].id /\ trace[j].leaving = trace[i].sig

\* the catch clause whose body runs directly in frame F: the try activation
\* under the block of F on the stack
CatchOf(F) ==
  {i \in 2..Len(stack) : /\ stack[i].k = "block" /\ stack[i].env = F
                         /\ stack[i - 1].k = "try" /\ stack[i - 1].phase = "catch"}

\* C23: the catch body runs in a fresh frame whose parent is the frame the
\* try form runs in and whose only binding is the catch variable; the try
\* body and the finally body run in the enclosing frame itself; a `set` in
\* the catch body neither adds a name to the enclosing frame nor changes
\* what that frame binds to the catch variable's name.
C23_CatchFrame ==
  [][/\ (mode = "signal" /\ stack # <<>> /\ Top.k = "try" /\ Top.phase = "body"
         /\ Catches(sig) /\ HasCatch(Top.node)) =>
          /\ Len(envs') = Len(envs) + 1
          /\ \A a \in DOMAIN envs : envs'[a] = envs[a]
          /\ envs'[Len(envs')].parent = Top.env
          /\ DOMAIN envs'[Len(envs')].variables = {Top.node.catch_var}
          /\ envs'[Len(envs')].variables[Top.node.catch_var] \in {sig.value, StrV(sig.text)}
          /\ mode' = "eval" /\ cenv' = Len(envs') /\ cur' = <<Top.node.catch_body[1]>>
     /\ (mode = "eval" /\ cur[1].t = "TryCatchStatement" /\ cur[1].try_body # <<>>) =>
          mode' = "eval" /\ cenv' = cenv /\ cur' = <<cur[1].try_body[1]>>
     /\ (stack' # <<>> /\ stack'[Len(stack')].k = "block"
         /\ Len(stack') > 1 /\ stack'[Len(stack') - 1].k = "try"
         /\ stack'[Len(stack') - 1].phase = "finally"
         /\ stack # <<>> /\ Top.k = "try" /\ Top.phase # "finally") =>
          mode' = "eval" /\ cenv' = Top.env
     /\ (Acting("Assignment") /\ Top.node.target.t = "Identifier"
         /\ CatchOf(Top.env) # {}) =>
          \A i \in CatchOf(Top.env) :
            LET P == stack[i - 1].env
                v == stack[i - 1].node.catch_var
            IN  /\ envs[Top.env].parent = P
                /\ DOMAIN envs'[P].variables = DOMAIN envs[P].variables
                /\ v \in DOMAIN envs[P].variables =>
                     envs'[P].variables[v] = envs[P].variables[v]]_vars

\* C23 happens: a try form whose catch body set the catch variable and a
\* new name has ended, its finally clause run; the frame it ran in still
\* binds the catch variable's name to the earlier value, binds the names
\* set by the try body and the finally body, and does not bind the new name.
C23_Witness ==
  /\ pid > 797 /\ mode = "halt"
  /\ \E c \in Ev("catch") : \E x \in Ev("try_exit") :
       /\ trace[x].id = trace[c].id /\ trace[x].fin_end = "normal"
       /\ LET F == envs[trace[c].catch_env]
              P == envs[F.parent]
          IN  /\ F.parent # 1
              /\ DOMAIN F.variables = {"e", "fresh"}
              /\ F.variables["e"] = IntV(5)
              /\ DOMAIN P.variables = {"tb", "fin"}
              /\ envs[1].variables["e"] = StrV("old")

\* `set name = value` for each name of a pattern in turn
RECURSIVE AssignEach(_, _, _, _)
AssignEach(es, e, names, values) ==
  IF names = <<>> THEN es
  ELSE AssignEach(Assign(es, e, names[1], values[1]), e, Tail(names), Tail(values))

\* C24: a destructuring statement that succeeds leaves the environments as
\* the assignments `set name = value`, one per name of the pattern, would:
\* a name bound on the chain is updated where it is bound, and only a name
\* bound nowhere is added to the current frame.
C24_PatternNamesAssignLikeSet ==
  [][/\ (Acting("DestructureList") /\ Top.vals[1].k = "list"
         /\ Len(Top.node.names) <= Len(lists[Top.vals[1].n])) =>
          envs' = AssignEach(envs, Top.env, Top.node.names, lists[Top.vals[1].n])
     /\ (Acting("DestructureDict") /\ Top.vals[1].k = "dict"
         /\ \A i \in 1..Len(Top.node.names) :
              Top.node.names[i] \in DOMAIN DictNames(dicts[Top.vals[1].n])) =>
          envs' = AssignEach(envs, Top.env, Top.node.names,
                             [i \in 1..Len(Top.node.names) |->
                                DictNames(dicts[Top.vals[1].n])[Top.node.names[i]]])]_vars

\* C27: a destructuring statement that fails has bound none of its names:
\* the step that raises its runtime error leaves every environment as it was.
C27_FailedPatternBindsNothing ==
  [][((Acting("DestructureDict") \/ Acting("DestructureList"))
      /\ mode' = "signal" /\ sig'.type = "VoltRuntimeError") =>
       envs' = envs]_vars

\* C25: a loop is ended or sent to its next pass only by a break or
\* continue of its own function: the signal a loop catches has left no
\* call activation on its way.
C25_BreakStaysInItsFunction ==
  (mode = "signal" /\ stack # <<>> /\ Top.k = "loop" /\ Handles(Top, sig)) =>
    \A j \in Ev("unwind") : trace[j].sig.id # sig.id

\* the activations of `use` that are loading a module file
Loading == {i \in 1..Len(stack) : stack[i].k = "use"}

\* C26: while a module file is being loaded no environment that existed
\* before the load changes, except that the step ending the load binds the
\* module's name in the frame where `use` ran.
C26_ModuleLoadTouchesOnlyItsName ==
  [][\A i \in Loading : \A a \in 1..(stack[i].module_env - 1) :
       IF i = Len(stack) /\ mode \in {"step", "value"} /\ Top.pc > Len(Top.stmts)
          /\ a = Top.env
         THEN /\ envs'[a].parent = envs[a].parent
              /\ DOMAIN envs'[a].variables =
                   DOMAIN envs[a].variables \cup {Top.node.module_name}
              /\ \A x \in DOMAIN envs[a].variables \ {Top.node.module_name} :
                   envs'[a].variables[x] = envs[a].variables[x]
         ELSE envs'[a] = envs[a]]_vars

\* C28: `set d.k = v` on a dict d stores v under the name k, and reading
\* `d.k` from a dict that holds the name k yields the value stored under it,
\* whatever the name.
C28_DictPropertyReadsWhatWasSet ==
  [][/\ (Acting("Assignment") /\ Top.node.target.t = "DotAccess"
         /\ Top.vals[2].k = "dict") =>
          /\ DictHas(dicts'[Top.vals[2].n], StrV(Top.node.target.property))
          /\ DictGet(dicts'[Top.vals[2].n], StrV(Top.node.target.property)) = Top.vals[1]
     /\ (Acting("DotAccess") /\ Top.vals[1].k = "dict"
         /\ DictHas(dicts[Top.vals[1].n], StrV(Top.node.property))) =>
          /\ mode' = "value"
          /\ val' = DictGet(dicts[Top.vals[1].n], StrV(Top.node.property))]_vars

\* C29: a named call whose name is a built-in runs the built-in whatever
\* the environments bind to the name: with all arguments evaluated, from
\* left to right, its result is the built-in's result for those arguments,
\* and no function is called and no class instantiated by the step.
C29_BuiltinNameAlwaysBuiltin ==
  /\ [][(Acting("FunctionCall") /\ Top.node.name \in Builtins) =>
          LET name == Top.node.name
              args == Top.vals
              fails(text) == /\ mode' = "signal" /\ sig'.type = "VoltRuntimeError"
                             /\ sig'.raw = text
              yields(v) == mode' = "value" /\ val' = v
          IN  /\ Len(args) = Len(Top.node.args)
              /\ stack' = Below
              /\ UNCHANGED <<heapvars, trace, out>>
              /\ name = "type" =>
                   IF Len(args) # 1 THEN fails("type() takes 1 argument")
                   ELSE IF args[1].k = "instance"
                     THEN yields(StrV(classes[insts[args[1].n].klass].name))
                   ELSE yields(StrV(args[1].k))
              /\ name = "len" =>
                   IF Len(args) # 1 THEN fails("len() takes 1 argument")
                   ELSE IF args[1].k = "list" THEN yields(IntV(Len(lists[args[1].n])))
                   ELSE IF args[1].k = "dict" THEN yields(IntV(Len(dicts[args[1].n])))
                   ELSE IF args[1].k = "string" THEN yields(IntV(Len(args[1].s)))
                   ELSE fails("len() not supported for " \o args[1].k)]_vars
  /\ [](mode = "eval" /\ stack # <<>> /\ Top.k = "operands"
        /\ Top.node.t = "FunctionCall" /\ Top.node.name \in Builtins =>
          cur = <<Top.node.args[Len(Top.vals) + 1]>>)

\* C29 happens: with `len` bound to a user function at top level, the call
\* len(mark([1, 2])) has shown 2, the length of the list, after mark ran.
C29_Witness ==
  /\ mode = "halt"
  /\ Holds("len", "function")
  /\ out = <<"[1, 2]", "2">>

\* ---------------------------------------------------------------------------
\* C30: a call suffix after a call or a parenthesised expression
\* ---------------------------------------------------------------------------

\* the call suffixes `()` and `(f)`
CallSuffixes == {<<"LPAREN", "RPAREN">>, <<"LPAREN", "IDENTIFIER", "RPAREN">>}

\* the arguments a call suffix holds
SuffixArgs(suffix) ==
  IF Len(suffix) = 2 THEN <<>> ELSE <<Identifier(TokenValue)>>

\* the token streams that are one expression statement ending in `)`:
\* a call such as `f(a)` or `o.m(a)`, or a parenthesised expression
IsCallOrGroup(ts) ==
  /\ Len(ts) > 0
  /\ ts[Len(ts)] = "RPAREN"
  /\ \A i \in 1..Len(ts) : ts[i] # "NEWLINE"
  /\ Parser_parse(ts).ok
  /\ Len(Parser_parse(ts).node.statements) = 1

\* the call of an expression: by name when the expression is a bare name
CallOf(expr, args) ==
  IF expr.t = "Identifier" THEN FunctionCall(expr.name, args)
  ELSE CallExpression(expr, args)

\* C30: when the tokens are a call or a parenthesised expression directly
\* followed by a call suffix, the parser returns a program of one statement,
\* the call of that expression with the arguments of the suffix; it never
\* returns two statements.
C30_CallSuffixIsOneCall ==
  \A suffix \in CallSuffixes :
    LET n == Len(tokens) - Len(suffix)
        before == SubSeq(tokens, 1, n)
    IN  ( /\ tree # NoTree
          /\ n > 0
          /\ SubSeq(tokens, n + 1, Len(tokens)) = suffix
          /\ IsCallOrGroup(before) )
        => /\ tree.ok
           /\ tree.node.statements =
                <<CallOf(Parser_parse(before).node.statements[1], SuffixArgs(suffix))>>

====
